---- MODULE Spec2Model ----
(***************************************************************************)
(* Workspace provisioning and lifecycle controller of open-web-agent:      *)
(* src/src/lib/docker.ts (first definition of each function), the          *)
(* workspace routes src/unnamed/part_005 (POST /api/workspaces) and        *)
(* src/src/app/api/workspaces/[id]/route.ts (PATCH, DELETE).               *)
(*                                                                         *)
(* The container runtime is the Docker engine reached through dockerode.   *)
(* Each awaited runtime call is one step.  A call either gets the answer   *)
(* the engine gives for the current runtime state (ok, notfound, conflict, *)
(* inuse, notmodified) or is rejected without effect ("fault": the control *)
(* plane is unreachable or answers 500).                                   *)
(***************************************************************************)
EXTENDS Naturals, Sequences, FiniteSets, TLC

VARIABLES
  rec,        \* record store: workspace id -> status of its record
  containers, \* runtime: container name -> [state, net, binds, web]
  networks,   \* runtime: names of the existing networks
  volumes,    \* runtime: names of the existing volumes
  kind,       \* workspace id -> the request in flight on it
  pc,         \* workspace id -> position of that request
  todo,       \* workspace id -> calls of the current Promise.all still pending
  failedAt,   \* workspace id -> the provisioning step that threw
  error,      \* workspace id -> the exception createWorkspaceContainer holds
  exitCode,   \* workspace id -> StatusCode returned by initContainer.wait()
  resp,       \* workspace id -> outcome of the last finished request or call
  tdFault,    \* workspace id -> a teardown call of the current request was rejected by a fault
  hist,       \* workspace id -> statuses written by its create request (direct calls
              \* of removeWorkspaceContainer in SpecRemove), in order
  reqLeft,    \* number of requests the clients may still issue
  faultsLeft, \* number of runtime calls that may still be rejected by a fault
  overlap,    \* whether the clients overlap requests on different workspaces
  calls,      \* traced workspace id -> runtime calls the request in flight has
              \* issued, each with what it came back with, in order
  probe,      \* a health probe: its inputs, position and response
  synth,      \* a synthesis of agent configuration and labels: inputs and result
  pull,       \* the image pulls of one createWorkspaceContainer call
  race,     \* a second request on a workspace, running beside the one in flight
  prov,     \* provider records of one user and the provider requests in flight
  guard     \* the request being routed: session, route, named workspace, response

vars == <<rec, containers, networks, volumes, kind, pc, todo, failedAt,
          error, exitCode, resp, tdFault, hist, reqLeft, faultsLeft, overlap,
          calls, probe, synth, pull, race, prov, guard>>

rt == <<containers, networks, volumes>>

\* what the workspace lifecycle leaves alone
other == <<probe, synth, pull, race, prov, guard>>

(* ------------------------------ bounds -------------------------------- *)

\* ids are generated by the record store (cuid); two of them, one a prefix
\* of the other, are enough for the pairwise claims
WorkspaceIds == {"c1", "c12"}

\* total number of requests (POST, PATCH, DELETE) issued in one behaviour
MaxRequests == 3

\* total number of runtime calls a behaviour lets fail by a fault
MaxFaults == 2

\* the same two budgets when requests on different workspaces overlap
IsoRequests == 2
IsoFaults == 1

\* number of direct calls of removeWorkspaceContainer
MaxRemoveCalls == 2

(* ------------------------------- names -------------------------------- *)

\* faulty variant: the workspace id left out of the network name
networkName_NoId(w) == "workspace-"
networkName(w) == "workspace-" \o w
volumeName(w) == "workspace-" \o w \o "-data"
opencodeDataVolume(w) == "workspace-" \o w \o "-opencode"
mainNetwork == "open-web-agent-2_web"
\* the network of a container created without NetworkMode
defaultNetwork == "bridge"
initName(w) == "init-" \o w
\* faulty variant: the workspace id left out of the editor container's name
codeServerName_NoId(w) == "code-server-"
codeServerName(w) == "code-server-" \o w
opencodeName(w) == "opencode-" \o w

Services == {"code-server", "opencode"}
serviceName(s, w) == IF s = "code-server" THEN codeServerName(w) ELSE opencodeName(w)

Statuses == {"pending", "starting", "running", "stopped", "error"}

(* --------------------------- runtime engine --------------------------- *)

Exists(c) == c \in DOMAIN containers

\* a volume mounted by any container, running or not, cannot be removed
VolumeInUse(v) == \E c \in DOMAIN containers : v \in containers[c].binds

\* a network with an active endpoint (a running container) cannot be removed
NetworkInUse(n) == \E c \in DOMAIN containers :
                      containers[c].state = "running" /\ containers[c].net = n

WithContainer(c, r) == [x \in DOMAIN containers \cup {c} |->
                          IF x = c THEN r ELSE containers[x]]
WithoutContainer(c) == [x \in DOMAIN containers \ {c} |-> containers[x]]

\* answers of the engine to each call in the current runtime state
AnsCreateVolume(v) == "ok"
AnsCreateNetwork(n) == IF n \in networks THEN "conflict" ELSE "ok"
AnsCreateContainer(c) == IF Exists(c) THEN "conflict" ELSE "ok"
AnsStart(c) == IF ~Exists(c) THEN "notfound"
               ELSE IF containers[c].state = "running" THEN "notmodified"
               ELSE IF containers[c].net \notin networks THEN "error"
               ELSE "ok"
AnsStop(c) == IF ~Exists(c) THEN "notfound"
              ELSE IF containers[c].state # "running" THEN "notmodified"
              ELSE "ok"
AnsRemoveContainer(c, force) ==
  IF ~Exists(c) THEN "notfound"
  ELSE IF containers[c].state = "running" /\ ~force THEN "conflict"
  ELSE "ok"
AnsRemoveNetwork(n) == IF n \notin networks THEN "notfound"
                       ELSE IF NetworkInUse(n) THEN "inuse" ELSE "ok"
AnsRemoveVolume(v) == IF v \notin volumes THEN "notfound"
                      ELSE IF VolumeInUse(v) THEN "inuse" ELSE "ok"
AnsConnect(c) == IF ~Exists(c) THEN "notfound"
                 ELSE IF containers[c].web THEN "conflict" ELSE "ok"

\* what a call can come back with: the engine's answer, or a fault
Outcomes(ans) == IF faultsLeft > 0 THEN {ans, "fault"} ELSE {ans}

Count(o) == faultsLeft' = IF o = "fault" THEN faultsLeft - 1 ELSE faultsLeft

\* the runtime after a call that was answered ok
DoCreateVolume(v) == volumes' = volumes \cup {v} /\ UNCHANGED <<containers, networks>>
DoCreateNetwork(n) == networks' = networks \cup {n} /\ UNCHANGED <<containers, volumes>>
\* a named volume in Binds that does not exist is created with the container
DoCreateContainer(c, net, binds) ==
  /\ containers' = WithContainer(c, [state |-> "created", net |-> net,
                                      binds |-> binds, web |-> FALSE])
  /\ volumes' = volumes \cup binds
  /\ UNCHANGED networks
\* faulty variant: the container is replaced by a new one in the wanted state
DoSetState_Recreates(c, s) ==
  /\ containers' = [containers EXCEPT ![c] = [state |-> s, net |-> @.net,
                                               binds |-> @.binds, web |-> FALSE]]
  /\ UNCHANGED <<networks, volumes>>
DoSetState(c, s) ==
  /\ containers' = [containers EXCEPT ![c].state = s]
  /\ UNCHANGED <<networks, volumes>>
DoRemoveContainer(c) == containers' = WithoutContainer(c) /\ UNCHANGED <<networks, volumes>>
DoRemoveNetwork(n) == networks' = networks \ {n} /\ UNCHANGED <<containers, volumes>>
DoRemoveVolume(v) == volumes' = volumes \ {v} /\ UNCHANGED <<containers, networks>>
DoConnect(c) ==
  /\ containers' = [containers EXCEPT ![c].web = TRUE]
  /\ UNCHANGED <<networks, volumes>>

(* ------------------------------- state -------------------------------- *)

NoError == <<>>

\* no health probe and no synthesis is under way
NoProbe == [at |-> "none"]
NoSynth == [at |-> "none"]
NoPull == [main |-> "none"]
NoRace == [kind |-> "none"]
NoProv == [at |-> "none"]
NoGuard == [at |-> "none"]
LifecycleOnly == probe = NoProbe /\ synth = NoSynth /\ pull = NoPull /\ race = NoRace /\ prov = NoProv /\ guard = NoGuard

\* the calls of no workspace are traced
NoTrace == <<>>

\* the state before any request: no record, an empty runtime but for the
\* shared proxy network and the engine's default network
Quiet(requests, faultBudget, overlapping) ==
  /\ rec = [w \in WorkspaceIds |-> "absent"]
  /\ networks = {mainNetwork, defaultNetwork}
  /\ kind = [w \in WorkspaceIds |-> "none"]
  /\ pc = [w \in WorkspaceIds |-> "idle"]
  /\ todo = [w \in WorkspaceIds |-> {}]
  /\ failedAt = [w \in WorkspaceIds |-> "none"]
  /\ error = [w \in WorkspaceIds |-> NoError]
  /\ exitCode = [w \in WorkspaceIds |-> 0]
  /\ resp = [w \in WorkspaceIds |-> "none"]
  /\ tdFault = [w \in WorkspaceIds |-> FALSE]
  /\ hist = [w \in WorkspaceIds |-> <<>>]
  /\ reqLeft = requests
  /\ faultsLeft = faultBudget
  /\ overlap = overlapping

Init ==
  /\ Quiet(MaxRequests, MaxFaults, FALSE)
  /\ LifecycleOnly
  /\ calls = NoTrace
  /\ containers = <<>>
  /\ volumes = {}

(* -------------------- POST /api/workspaces (create) -------------------- *)

\* the trace of w, where w is traced, becomes t
Traced(w, t) == calls' = IF w \in DOMAIN calls THEN [calls EXCEPT ![w] = t] ELSE calls

\* the runtime call `call` of the request on w came back with o
Logged(w, call, o) ==
  Traced(w, IF w \in DOMAIN calls THEN Append(calls[w], <<call, o>>) ELSE <<>>)

Idle(w) == kind[w] = "none" /\ pc[w] = "idle"

\* ghosts of a request: cleared when the next request on the workspace begins
Begin(w, k, at) ==
  /\ Idle(w)
  /\ overlap \/ \A v \in WorkspaceIds : Idle(v)
  /\ reqLeft > 0
  /\ reqLeft' = reqLeft - 1
  /\ kind' = [kind EXCEPT ![w] = k]
  /\ pc' = [pc EXCEPT ![w] = at]
  /\ failedAt' = [failedAt EXCEPT ![w] = "none"]
  /\ error' = [error EXCEPT ![w] = NoError]
  /\ exitCode' = [exitCode EXCEPT ![w] = 0]
  /\ resp' = [resp EXCEPT ![w] = "none"]
  /\ tdFault' = [tdFault EXCEPT ![w] = FALSE]
  /\ Traced(w, <<>>)
  /\ UNCHANGED <<faultsLeft, overlap, other>>

\* the request returns its response
Finish(w, r) ==
  /\ kind' = [kind EXCEPT ![w] = "none"]
  /\ pc' = [pc EXCEPT ![w] = "idle"]
  /\ resp' = [resp EXCEPT ![w] = r]
  /\ Traced(w, <<>>)

\* prisma.workspace.findFirst found the record
Found(w) == rec[w] \in Statuses

\* the response of a handler whose last statement writes the record of w:
\* prisma rejects an update or delete of a record that is gone, and the
\* catch block of the route answers 500
Written(w) == IF Found(w) THEN "ok" ELSE "raised"

\* prisma.workspace.update({ where: { id: w }, data: { status } }); a record
\* that is gone stays gone
Update(w, status) == rec' = IF Found(w) THEN [rec EXCEPT ![w] = status] ELSE rec

\* prisma.workspace.create({ data: { ..., status: 'pending' } })
PostCreateRecord(w) ==
  /\ rec[w] = "absent"
  /\ Begin(w, "create", "post_starting")
  /\ rec' = [rec EXCEPT ![w] = "pending"]
  /\ hist' = [hist EXCEPT ![w] = <<"pending">>]
  /\ UNCHANGED <<rt, todo>>

\* faulty variant: provisioning begins without the status being written
PostStarting_NoWrite(w) ==
  /\ kind[w] = "create" /\ pc[w] = "post_starting"
  /\ pc' = [pc EXCEPT ![w] = "pull"]
  /\ UNCHANGED <<rt, rec, hist, kind, todo, failedAt, error, exitCode, resp, tdFault,
                 reqLeft, faultsLeft, overlap, other, calls>>

\* prisma.workspace.update({ data: { status: 'starting' } })
PostStarting(w) ==
  /\ kind[w] = "create" /\ pc[w] = "post_starting"
  /\ Update(w, "starting")
  /\ IF Found(w)
     THEN /\ hist' = [hist EXCEPT ![w] = Append(@, "starting")]
          /\ pc' = [pc EXCEPT ![w] = "pull"]
          /\ UNCHANGED <<kind, resp, calls>>
     ELSE \* the update throws, and so does the update of the inner catch
          /\ Finish(w, "raised")
          /\ UNCHANGED hist
  /\ UNCHANGED <<rt, todo, failedAt, error, exitCode, tdFault, reqLeft,
                 faultsLeft, overlap, other>>

\* faulty variant: the catch block rethrows without calling cleanupWorkspace
TryStep_SkipsCleanup(w, step, next, o) ==
  /\ kind[w] = "create" /\ pc[w] = step
  /\ IF o = "ok"
     THEN /\ pc' = [pc EXCEPT ![w] = next]
          /\ UNCHANGED <<failedAt, error>>
     ELSE /\ pc' = [pc EXCEPT ![w] = "post_error"]
          /\ failedAt' = [failedAt EXCEPT ![w] = step]
          /\ error' = [error EXCEPT ![w] = <<step, o>>]
  /\ Logged(w, step, o)
  /\ Count(o)
  /\ UNCHANGED <<rec, kind, todo, resp, tdFault, hist, reqLeft, overlap, other>>

\* one awaited statement of the try block of createWorkspaceContainer: on ok
\* control moves on, anything else is thrown to the catch block, which
\* holds the exception and enters cleanupWorkspace
TryStep(w, step, next, o) ==
  /\ kind[w] = "create" /\ pc[w] = step
  /\ IF o = "ok"
     THEN /\ pc' = [pc EXCEPT ![w] = next]
          /\ UNCHANGED <<failedAt, error>>
     ELSE /\ pc' = [pc EXCEPT ![w] = "cl_init"]
          /\ failedAt' = [failedAt EXCEPT ![w] = step]
          /\ error' = [error EXCEPT ![w] = <<step, o>>]
  /\ Logged(w, step, o)
  /\ Count(o)
  /\ UNCHANGED <<rec, kind, todo, resp, tdFault, hist, reqLeft, overlap, other>>

\* faulty variant: the pulls are not awaited, a failed pull goes unnoticed
PullImages_NotAwaited(w) ==
  \E o \in Outcomes("ok") :
    /\ kind[w] = "create" /\ pc[w] = "pull"
    /\ pc' = [pc EXCEPT ![w] = "vol_data"]
    /\ Logged(w, "pull", o)
    /\ Count(o)
    /\ UNCHANGED <<rt, rec, kind, todo, failedAt, error, exitCode, resp, tdFault, hist,
                   reqLeft, overlap, other>>

\* await Promise.all([pullImageIfNeeded(...) x 3])
PullImages(w) ==
  \E o \in Outcomes("ok") :
    /\ TryStep(w, "pull", "vol_data", o)
    /\ UNCHANGED <<rt, exitCode>>

CreateDataVolume(w) ==
  \E o \in Outcomes(AnsCreateVolume(volumeName(w))) :
    /\ TryStep(w, "vol_data", "vol_opencode", o)
    /\ IF o = "ok" THEN DoCreateVolume(volumeName(w)) ELSE UNCHANGED rt
    /\ UNCHANGED exitCode

CreateOpencodeVolume(w) ==
  \E o \in Outcomes(AnsCreateVolume(opencodeDataVolume(w))) :
    /\ TryStep(w, "vol_opencode", "fetch_config", o)
    /\ IF o = "ok" THEN DoCreateVolume(opencodeDataVolume(w)) ELSE UNCHANGED rt
    /\ UNCHANGED exitCode

\* prisma skill.findMany and lLMProvider.findMany
FetchConfig(w) ==
  \E o \in Outcomes("ok") :
    /\ TryStep(w, "fetch_config", "network", o)
    /\ UNCHANGED <<rt, exitCode>>

CreateNetwork(w) ==
  \E o \in Outcomes(AnsCreateNetwork(networkName(w))) :
    /\ TryStep(w, "network", "init_create", o)
    /\ IF o = "ok" THEN DoCreateNetwork(networkName(w)) ELSE UNCHANGED rt
    /\ UNCHANGED exitCode

CreateInit(w) ==
  \E o \in Outcomes(AnsCreateContainer(initName(w))) :
    /\ TryStep(w, "init_create", "init_start", o)
    /\ IF o = "ok"
       THEN DoCreateContainer(initName(w), defaultNetwork, {volumeName(w)})
       ELSE UNCHANGED rt
    /\ UNCHANGED exitCode

\* faulty variant: the clone is not waited for
StartInit_NoWait(w) ==
  \E o \in Outcomes(AnsStart(initName(w))) :
    /\ TryStep(w, "init_start", "cs_create", o)
    /\ IF o = "ok" THEN DoSetState(initName(w), "running") ELSE UNCHANGED rt
    /\ UNCHANGED exitCode

StartInit(w) ==
  \E o \in Outcomes(AnsStart(initName(w))) :
    /\ TryStep(w, "init_start", "init_wait", o)
    /\ IF o = "ok" THEN DoSetState(initName(w), "running") ELSE UNCHANGED rt
    /\ UNCHANGED exitCode

ExitCodes == {0, 1}

\* faulty variant: the StatusCode of the init container is not looked at
WaitInit_IgnoresExitCode(w) ==
  \/ \E c \in ExitCodes :
       /\ TryStep(w, "init_wait", "init_remove", "ok")
       /\ DoSetState(initName(w), "exited")
       /\ exitCode' = [exitCode EXCEPT ![w] = c]
  \/ /\ "fault" \in Outcomes("ok")
     /\ TryStep(w, "init_wait", "init_remove", "fault")
     /\ UNCHANGED <<rt, exitCode>>

\* await initContainer.wait(): the clone has run to its exit
WaitInit(w) ==
  \/ \E c \in ExitCodes :
       IF Exists(initName(w))
       THEN /\ TryStep(w, "init_wait", IF c # 0 THEN "init_logs" ELSE "init_remove", "ok")
            /\ DoSetState(initName(w), "exited")
            /\ exitCode' = [exitCode EXCEPT ![w] = c]
       ELSE \* the container has been removed under the waiting request
            /\ TryStep(w, "init_wait", "init_remove", "notfound")
            /\ UNCHANGED <<rt, exitCode>>
  \/ /\ "fault" \in Outcomes("ok")
     /\ TryStep(w, "init_wait", "init_remove", "fault")
     /\ UNCHANGED <<rt, exitCode>>

\* the output of a container's process, as initContainer.logs() returns it
ContainerLogs(c) == "logs of " \o c

\* new Error(`Failed to clone repository. Exit code: ${initResult.StatusCode}`)
CloneError(code, logs) == <<"Failed to clone repository. Exit code: ", ToString(code)>>

\* StatusCode !== 0: await initContainer.logs(), console.error them, throw
InitLogs(w) ==
  /\ kind[w] = "create" /\ pc[w] = "init_logs"
  /\ pc' = [pc EXCEPT ![w] = "cl_init"]
  /\ \E o \in Outcomes("ok") :
       /\ Count(o)
       /\ Logged(w, "init_logs", o)
       /\ IF o = "ok"
          THEN /\ failedAt' = [failedAt EXCEPT ![w] = "clone"]
               /\ error' = [error EXCEPT ![w] =
                              CloneError(exitCode[w], ContainerLogs(initName(w)))]
          ELSE /\ failedAt' = [failedAt EXCEPT ![w] = "init_logs"]
               /\ error' = [error EXCEPT ![w] = <<"init_logs", o>>]
  /\ UNCHANGED <<rt, rec, kind, todo, exitCode, resp, tdFault, hist, reqLeft, overlap, other>>

\* await initContainer.remove()
RemoveInit(w) ==
  \E o \in Outcomes(AnsRemoveContainer(initName(w), FALSE)) :
    /\ TryStep(w, "init_remove", "cs_create", o)
    /\ IF o = "ok" THEN DoRemoveContainer(initName(w)) ELSE UNCHANGED rt
    /\ UNCHANGED exitCode

CreateCodeServer(w) ==
  \E o \in Outcomes(AnsCreateContainer(codeServerName(w))) :
    /\ TryStep(w, "cs_create", "oc_create", o)
    /\ IF o = "ok"
       THEN DoCreateContainer(codeServerName(w), networkName(w), {volumeName(w)})
       ELSE UNCHANGED rt
    /\ UNCHANGED exitCode

CreateOpencode(w) ==
  \E o \in Outcomes(AnsCreateContainer(opencodeName(w))) :
    /\ TryStep(w, "oc_create", "cs_connect", o)
    /\ IF o = "ok"
       THEN DoCreateContainer(opencodeName(w), networkName(w),
                              {volumeName(w), opencodeDataVolume(w)})
       ELSE UNCHANGED rt
    /\ UNCHANGED exitCode

\* webNetwork.connect({ Container: `code-server-${workspaceId}` })
ConnectCodeServer(w) ==
  \E o \in Outcomes(AnsConnect(codeServerName(w))) :
    /\ TryStep(w, "cs_connect", "oc_connect", o)
    /\ IF o = "ok" THEN DoConnect(codeServerName(w)) ELSE UNCHANGED rt
    /\ UNCHANGED exitCode

ConnectOpencode(w) ==
  \E o \in Outcomes(AnsConnect(opencodeName(w))) :
    /\ TryStep(w, "oc_connect", "cs_start", o)
    /\ IF o = "ok" THEN DoConnect(opencodeName(w)) ELSE UNCHANGED rt
    /\ UNCHANGED exitCode

StartCodeServer(w) ==
  \E o \in Outcomes(AnsStart(codeServerName(w))) :
    /\ TryStep(w, "cs_start", "oc_start", o)
    /\ IF o = "ok" THEN DoSetState(codeServerName(w), "running") ELSE UNCHANGED rt
    /\ UNCHANGED exitCode

\* the last statement of the try block; the function then returns the handles
StartOpencode(w) ==
  \E o \in Outcomes(AnsStart(opencodeName(w))) :
    /\ TryStep(w, "oc_start", "post_running", o)
    /\ IF o = "ok" THEN DoSetState(opencodeName(w), "running") ELSE UNCHANGED rt
    /\ UNCHANGED exitCode

\* prisma.workspace.update({ data: { containerId, status: 'running' } }), 200
PostRunning(w) ==
  /\ kind[w] = "create" /\ pc[w] = "post_running"
  /\ Update(w, "running")
  /\ hist' = [hist EXCEPT ![w] = IF Found(w) THEN Append(@, "running") ELSE @]
  /\ Finish(w, Written(w))
  /\ UNCHANGED <<rt, todo, failedAt, error, exitCode, tdFault, reqLeft, faultsLeft, overlap, other>>

\* createWorkspaceContainer has thrown: the inner catch of POST writes status
\* 'error' and rethrows, the outer catch answers 500
PostError(w) ==
  /\ kind[w] = "create" /\ pc[w] = "post_error"
  /\ Update(w, "error")
  /\ hist' = [hist EXCEPT ![w] = IF Found(w) THEN Append(@, "error") ELSE @]
  /\ Finish(w, "raised")
  /\ UNCHANGED <<rt, todo, failedAt, error, exitCode, tdFault, reqLeft, faultsLeft, overlap, other>>

(* ------------------- stop, start, remove, cleanup --------------------- *)

\* faulty variant: the rejection is not caught
Caught_Rethrown(o) == o

\* promise.catch(() => { }): a rejection becomes a resolved promise
Caught(o) == IF o = "ok" THEN "ok" ELSE "swallowed"

Resolved(x) == x \in {"ok", "swallowed"}

\* an exception leaves the function through `catch (error) { throw error }`
\* and the route answers 500 without touching the record
Raise(w) ==
  /\ Finish(w, "raised")
  /\ todo' = [todo EXCEPT ![w] = {}]

\* one call of a Promise.all over both service containers has settled; when
\* all have, control moves to `next`
Settle(w, op, s, o, next, nextTodo) ==
  IF Resolved(Caught(o))
  THEN /\ todo' = [todo EXCEPT ![w] = IF todo[w] = {s} THEN nextTodo ELSE @ \ {s}]
       /\ Logged(w, op \o ":" \o s, o)
       /\ pc' = [pc EXCEPT ![w] = IF todo[w] = {s} THEN next ELSE @]
       /\ UNCHANGED <<kind, resp>>
  ELSE Raise(w)

\* stopWorkspaceContainer: container.stop().catch(() => { }) for both
StopCall(w, s) ==
  /\ kind[w] \in {"stop", "delete", "remove"} /\ pc[w] = "stop_calls"
  /\ s \in todo[w]
  /\ \E o \in Outcomes(AnsStop(serviceName(s, w))) :
       /\ IF o = "ok" THEN DoSetState(serviceName(s, w), "exited") ELSE UNCHANGED rt
       /\ IF kind[w] = "stop"
          THEN Settle(w, "stop", s, o, "patch_stopped", {})
          ELSE Settle(w, "stop", s, o, "rm_calls", Services)
       /\ Count(o)
  /\ UNCHANGED <<rec, failedAt, error, exitCode, tdFault, hist, reqLeft, overlap, other>>

\* startWorkspaceContainer: container.start().catch(() => { }) for both
StartCall(w, s) ==
  /\ kind[w] = "start" /\ pc[w] = "start_calls"
  /\ s \in todo[w]
  /\ \E o \in Outcomes(AnsStart(serviceName(s, w))) :
       /\ IF o = "ok" THEN DoSetState(serviceName(s, w), "running") ELSE UNCHANGED rt
       /\ Settle(w, "start", s, o, "patch_running", {})
       /\ Count(o)
  /\ UNCHANGED <<rec, failedAt, error, exitCode, tdFault, hist, reqLeft, overlap, other>>

\* faulty variant: cleanupWorkspace leaves the init container alone
RemoveCall_SkipsInit(w, s) ==
  /\ kind[w] \in {"delete", "remove"} /\ pc[w] = "rm_calls"
  /\ s \in todo[w]
  /\ \E o \in Outcomes(AnsRemoveContainer(serviceName(s, w), TRUE)) :
       /\ IF o = "ok" THEN DoRemoveContainer(serviceName(s, w)) ELSE UNCHANGED rt
       /\ Settle(w, "remove", s, o, "cl_net", {})
       /\ tdFault' = [tdFault EXCEPT ![w] = @ \/ o = "fault"]
       /\ Count(o)
  /\ UNCHANGED <<rec, failedAt, error, exitCode, hist, reqLeft, overlap, other>>

\* removeWorkspaceContainer: container.remove({ force: true }).catch(() => { })
RemoveCall(w, s) ==
  /\ kind[w] \in {"delete", "remove"} /\ pc[w] = "rm_calls"
  /\ s \in todo[w]
  /\ \E o \in Outcomes(AnsRemoveContainer(serviceName(s, w), TRUE)) :
       /\ IF o = "ok" THEN DoRemoveContainer(serviceName(s, w)) ELSE UNCHANGED rt
       /\ Settle(w, "remove", s, o, "cl_init", {})
       /\ tdFault' = [tdFault EXCEPT ![w] = @ \/ o = "fault"]
       /\ Count(o)
  /\ UNCHANGED <<rec, failedAt, error, exitCode, hist, reqLeft, overlap, other>>

\* where cleanupWorkspace returns to: the catch block of
\* createWorkspaceContainer rethrows, removeWorkspaceContainer returns
AfterCleanup(w) == CASE kind[w] = "create" -> "post_error"
                     [] kind[w] = "delete" -> "del_record"
                     [] OTHER -> "rm_return"

\* faulty variant: the rejection of a removal call replaces the held exception
CleanupStep_MasksError(w, step, next, o) ==
  /\ kind[w] \in {"create", "delete", "remove"} /\ pc[w] = step
  /\ pc' = [pc EXCEPT ![w] = next]
  /\ tdFault' = [tdFault EXCEPT ![w] = @ \/ o = "fault"]
  /\ error' = [error EXCEPT ![w] = IF o = "ok" THEN @ ELSE <<step, o>>]
  /\ Logged(w, step, o)
  /\ Count(o)
  /\ UNCHANGED <<rec, kind, todo, failedAt, exitCode, resp, hist, reqLeft, overlap, other>>

\* faulty variant: a rejected removal call ends cleanupWorkspace
CleanupStep_Aborts(w, step, next, o) ==
  /\ kind[w] \in {"create", "delete", "remove"} /\ pc[w] = step
  /\ pc' = [pc EXCEPT ![w] = IF o = "ok" THEN next ELSE AfterCleanup(w)]
  /\ tdFault' = [tdFault EXCEPT ![w] = @ \/ o = "fault"]
  /\ Logged(w, step, o)
  /\ Count(o)
  /\ UNCHANGED <<rec, kind, todo, failedAt, error, exitCode, resp, hist, reqLeft,
                 overlap, other>>

\* one `try { await x.remove().catch(() => { }) } catch { }` of cleanupWorkspace
CleanupStep(w, step, next, o) ==
  /\ kind[w] \in {"create", "delete", "remove"} /\ pc[w] = step
  /\ pc' = [pc EXCEPT ![w] = next]
  /\ tdFault' = [tdFault EXCEPT ![w] = @ \/ o = "fault"]
  /\ Logged(w, step, o)
  /\ Count(o)
  /\ UNCHANGED <<rec, kind, todo, failedAt, error, exitCode, resp, hist, reqLeft, overlap, other>>

CleanupInit(w) ==
  \E o \in Outcomes(AnsRemoveContainer(initName(w), TRUE)) :
    /\ CleanupStep(w, "cl_init", "cl_net", o)
    /\ IF o = "ok" THEN DoRemoveContainer(initName(w)) ELSE UNCHANGED rt

CleanupNetwork(w) ==
  \E o \in Outcomes(AnsRemoveNetwork(networkName(w))) :
    /\ CleanupStep(w, "cl_net", "cl_vol", o)
    /\ IF o = "ok" THEN DoRemoveNetwork(networkName(w)) ELSE UNCHANGED rt

\* faulty variant: the agent-state volume is removed in place of the data volume
CleanupVolume_WrongVolume(w) ==
  \E o \in Outcomes(AnsRemoveVolume(opencodeDataVolume(w))) :
    /\ CleanupStep(w, "cl_vol", "cl_ocvol", o)
    /\ IF o = "ok" THEN DoRemoveVolume(opencodeDataVolume(w)) ELSE UNCHANGED rt

CleanupVolume(w) ==
  \E o \in Outcomes(AnsRemoveVolume(volumeName(w))) :
    /\ CleanupStep(w, "cl_vol", "cl_ocvol", o)
    /\ IF o = "ok" THEN DoRemoveVolume(volumeName(w)) ELSE UNCHANGED rt

CleanupOpencodeVolume(w) ==
  \E o \in Outcomes(AnsRemoveVolume(opencodeDataVolume(w))) :
    /\ CleanupStep(w, "cl_ocvol", AfterCleanup(w), o)
    /\ IF o = "ok" THEN DoRemoveVolume(opencodeDataVolume(w)) ELSE UNCHANGED rt

(* ---------------- PATCH and DELETE /api/workspaces/[id] ---------------- *)

PatchStop(w) ==
  /\ Found(w)
  /\ Begin(w, "stop", "stop_calls")
  /\ todo' = [todo EXCEPT ![w] = Services]
  /\ UNCHANGED <<rt, rec, hist>>

PatchStopRecord(w) ==
  /\ kind[w] = "stop" /\ pc[w] = "patch_stopped"
  /\ Update(w, "stopped")
  /\ Finish(w, Written(w))
  /\ UNCHANGED <<rt, todo, failedAt, error, exitCode, tdFault, hist, reqLeft, faultsLeft, overlap, other>>

PatchStart(w) ==
  /\ Found(w)
  /\ Begin(w, "start", "start_calls")
  /\ todo' = [todo EXCEPT ![w] = Services]
  /\ UNCHANGED <<rt, rec, hist>>

PatchStartRecord(w) ==
  /\ kind[w] = "start" /\ pc[w] = "patch_running"
  /\ Update(w, "running")
  /\ Finish(w, Written(w))
  /\ UNCHANGED <<rt, todo, failedAt, error, exitCode, tdFault, hist, reqLeft, faultsLeft, overlap, other>>

Delete(w) ==
  /\ Found(w)
  /\ Begin(w, "delete", "stop_calls")
  /\ todo' = [todo EXCEPT ![w] = Services]
  /\ UNCHANGED <<rt, rec, hist>>

\* faulty variant: the record is kept, marked stopped
DeleteRecord_KeepsRecord(w) ==
  /\ kind[w] = "delete" /\ pc[w] = "del_record"
  /\ rec' = [rec EXCEPT ![w] = "stopped"]
  /\ Finish(w, "ok")
  /\ UNCHANGED <<rt, todo, failedAt, error, exitCode, tdFault, hist, reqLeft,
                 faultsLeft, overlap, other>>

\* prisma.workspace.delete after removeWorkspaceContainer has returned
DeleteRecord(w) ==
  /\ kind[w] = "delete" /\ pc[w] = "del_record"
  /\ rec' = [rec EXCEPT ![w] = "deleted"]
  /\ Finish(w, Written(w))
  /\ UNCHANGED <<rt, todo, failedAt, error, exitCode, tdFault, hist, reqLeft, faultsLeft, overlap, other>>

Next ==
  \E w \in WorkspaceIds :
    \/ PostCreateRecord(w) \/ PostStarting(w) \/ PullImages(w)
    \/ CreateDataVolume(w) \/ CreateOpencodeVolume(w) \/ FetchConfig(w)
    \/ CreateNetwork(w) \/ CreateInit(w) \/ StartInit(w) \/ WaitInit(w)
    \/ InitLogs(w) \/ RemoveInit(w) \/ CreateCodeServer(w) \/ CreateOpencode(w)
    \/ ConnectCodeServer(w) \/ ConnectOpencode(w)
    \/ StartCodeServer(w) \/ StartOpencode(w)
    \/ PostRunning(w) \/ PostError(w)
    \/ CleanupInit(w) \/ CleanupNetwork(w) \/ CleanupVolume(w)
    \/ CleanupOpencodeVolume(w)
    \/ PatchStop(w) \/ PatchStopRecord(w) \/ PatchStart(w) \/ PatchStartRecord(w)
    \/ Delete(w) \/ DeleteRecord(w)
    \/ \E s \in Services : StopCall(w, s) \/ StartCall(w, s) \/ RemoveCall(w, s)

Spec == Init /\ [][Next]_vars

\* budgets of the behaviours in which the runtime calls are traced
TraceRequests == 2
TraceFaults == 2

InitCalls ==
  /\ Quiet(TraceRequests, TraceFaults, FALSE)
  /\ probe = NoProbe /\ synth = NoSynth
  /\ pull = NoPull
  /\ race = NoRace
  /\ prov = NoProv
  /\ guard = NoGuard
  /\ calls = [w \in WorkspaceIds |-> <<>>]
  /\ containers = <<>>
  /\ volumes = {}

SpecCalls == InitCalls /\ [][Next]_vars

(* ------------------------ properties and claims ----------------------- *)

Range(f) == {f[i] : i \in DOMAIN f}

OwnContainers(w) == {initName(w), codeServerName(w), opencodeName(w)} \cap DOMAIN containers
OwnVolumes(w) == {volumeName(w), opencodeDataVolume(w)} \cap volumes
OwnNetworks(w) == {networkName(w)} \cap networks

\* nothing named from the workspace id is left in the runtime
NoResources(w) == OwnContainers(w) = {} /\ OwnVolumes(w) = {} /\ OwnNetworks(w) = {}

\* createWorkspaceContainer has rolled back and rethrown to the POST handler
CreateRaised(w) == kind[w] = "create" /\ pc[w] = "post_error"

\* the steps of createWorkspaceContainer that follow creation of the editor container
LateSteps == {"oc_create", "cs_connect", "oc_connect", "cs_start", "oc_start"}

\* C1: when creation of the code-server container fails (volumes and network
\* created, clone done and init container removed) and the runtime answers
\* the rollback's removal calls, then once createWorkspaceContainer has
\* raised, no container, network or volume named from the id is left.
C1_RollbackAfterEditorFailure ==
  \A w \in WorkspaceIds :
    (CreateRaised(w) /\ failedAt[w] = "cs_create" /\ ~tdFault[w]) => NoResources(w)

C1_Witness ==
  \E w \in WorkspaceIds :
    CreateRaised(w) /\ failedAt[w] = "cs_create" /\ ~tdFault[w]

\* C2: when a step after creation of the code-server container fails and the
\* runtime answers the rollback's removal calls, then once
\* createWorkspaceContainer has raised nothing named from the id is left.
C2_NoOrphansAfterLateFailure ==
  \A w \in WorkspaceIds :
    (CreateRaised(w) /\ failedAt[w] \in LateSteps /\ ~tdFault[w]) => NoResources(w)

\* C3: a non-zero exit code of the init container never lets provisioning
\* go on: createWorkspaceContainer raises, the create request ends with the
\* record in status error, and (the runtime answering the rollback's removal
\* calls) nothing named from the id survives.
C3_CloneFailureLeavesNothing ==
  \A w \in WorkspaceIds :
    /\ (kind[w] = "create" /\ exitCode[w] # 0) =>
          /\ pc[w] \in {"init_logs", "cl_init", "cl_net", "cl_vol", "cl_ocvol", "post_error"}
          /\ rec[w] = "starting"
    /\ (CreateRaised(w) /\ failedAt[w] = "clone" /\ ~tdFault[w]) => NoResources(w)
    /\ (Idle(w) /\ exitCode[w] # 0) =>
          /\ rec[w] = "error" /\ resp[w] = "raised"
          /\ (failedAt[w] = "clone" /\ ~tdFault[w]) => NoResources(w)

C3_Witness ==
  \E w \in WorkspaceIds :
    Idle(w) /\ failedAt[w] = "clone" /\ ~tdFault[w] /\ rec[w] = "error"

\* C4: the error createWorkspaceContainer raises for a non-zero exit code of
\* the init container contains the logs captured from that container.
C4_CloneErrorCarriesLogs ==
  \A w \in WorkspaceIds :
    failedAt[w] = "clone" => ContainerLogs(initName(w)) \in Range(error[w])

\* C6: between requests, a record in status running has both service
\* containers in the runtime.
C6_RunningImpliesContainers ==
  \A w \in WorkspaceIds :
    (Idle(w) /\ rec[w] = "running") =>
       {codeServerName(w), opencodeName(w)} \subseteq DOMAIN containers

\* positions of the create request inside createWorkspaceContainer
TrySteps == {"pull", "vol_data", "vol_opencode", "fetch_config", "network",
             "init_create", "init_start", "init_wait", "init_logs", "init_remove",
             "cs_create", "oc_create", "cs_connect", "oc_connect", "cs_start", "oc_start"}
CleanupSteps == {"cl_init", "cl_net", "cl_vol", "cl_ocvol"}

IsPrefix(s, t) == Len(s) <= Len(t) /\ \A i \in 1..Len(s) : s[i] = t[i]

BothRunning(w) ==
  \A s \in Services :
    Exists(serviceName(s, w)) /\ containers[serviceName(s, w)].state = "running"

C7_States ==
  \A w \in WorkspaceIds :
    /\ rec[w] = "pending" =>
         kind[w] = "create" /\ pc[w] = "post_starting" /\ NoResources(w)
    /\ (kind[w] = "create" /\ pc[w] \in TrySteps \cup CleanupSteps) => rec[w] = "starting"
    /\ \/ IsPrefix(hist[w], <<"pending", "starting", "running">>)
       \/ IsPrefix(hist[w], <<"pending", "starting", "error">>)
    /\ (kind[w] = "create" /\ failedAt[w] # "none") => hist[w] = <<"pending", "starting">>
    /\ (Idle(w) /\ failedAt[w] # "none") => hist[w] = <<"pending", "starting", "error">>

C7_Steps ==
  \A w \in WorkspaceIds :
    (kind[w] = "create" /\ rec[w] # "running" /\ rec'[w] = "running") =>
       BothRunning(w) /\ failedAt[w] = "none" /\ rec[w] = "starting"

\* C7: the create request writes pending before any runtime resource exists
\* and before its first runtime call, is in status starting during all of
\* createWorkspaceContainer, writes running only when both service
\* containers are running, and a create request whose provisioning fails
\* writes pending, starting, error and never running.
C7_StatusSequence == [](C7_States) /\ [][C7_Steps]_vars

C7_Witness ==
  \E a, b \in WorkspaceIds :
    /\ Idle(a) /\ hist[a] = <<"pending", "starting", "running">> /\ BothRunning(a)
    /\ Idle(b) /\ hist[b] = <<"pending", "starting", "error">>

\* C8: a workspace record is deleted only when every runtime resource named
\* from its id has been removed.
C8_DeletedOnlyWhenRemoved ==
  \A w \in WorkspaceIds : rec[w] = "deleted" => NoResources(w)

\* the isolated network and both volumes of the workspace exist
HasTopology(w) ==
  /\ networkName(w) \in networks
  /\ volumeName(w) \in volumes
  /\ opencodeDataVolume(w) \in volumes

\* the create request of the workspace ended with status running
Provisioned(w) == hist[w] = <<"pending", "starting", "running">>

\* C9 as stated: between requests, every existing record, whatever its
\* status, has its isolated network and both volumes in the runtime.
C9_TopologyWhileRecordExists ==
  \A w \in WorkspaceIds : (Idle(w) /\ Found(w)) => HasTopology(w)

\* C9 amended: between requests, every existing record whose create request
\* succeeded has its isolated network and both volumes in the runtime.
C9_TopologyWhileProvisioned ==
  \A w \in WorkspaceIds : (Idle(w) /\ Found(w) /\ Provisioned(w)) => HasTopology(w)

C9_Witness ==
  \E w \in WorkspaceIds :
    Idle(w) /\ rec[w] = "stopped" /\ Provisioned(w)

(* ------------- overlapping requests on different workspaces ------------ *)

InitIso ==
  /\ Quiet(IsoRequests, IsoFaults, TRUE)
  /\ LifecycleOnly
  /\ calls = NoTrace
  /\ containers = <<>>
  /\ volumes = {}

SpecIso == InitIso /\ [][Next]_vars

ContainerNames(w) == {initName(w), codeServerName(w), opencodeName(w)}
VolumeNames(w) == {volumeName(w), opencodeDataVolume(w)}

\* C10: for two distinct workspace ids, the network names, the volume names
\* and the container names derived from them are disjoint, and in every
\* state of any interleaving of their requests no service container of one
\* is on the isolated network, or mounts a volume, of the other.
C10_IsolationByNaming ==
  \A a, b \in WorkspaceIds :
    a # b =>
      /\ networkName(a) # networkName(b)
      /\ VolumeNames(a) \cap VolumeNames(b) = {}
      /\ ContainerNames(a) \cap ContainerNames(b) = {}
      /\ \A s \in Services :
           Exists(serviceName(s, a)) =>
             /\ containers[serviceName(s, a)].net # networkName(b)
             /\ containers[serviceName(s, a)].binds \cap VolumeNames(b) = {}

C10_Witness ==
  \E a, b \in WorkspaceIds :
    /\ a # b
    /\ kind[a] = "create" /\ kind[b] = "create"
    /\ Exists(codeServerName(a)) /\ Exists(opencodeName(a))
    /\ Exists(codeServerName(b))

(* ------------- removeWorkspaceContainer on any runtime state ----------- *)

ContainerStates == {"created", "running", "exited"}

\* the container a provisioning of w creates under that name
Provisioned_init(w, st) ==
  [state |-> st, net |-> defaultNetwork, binds |-> {volumeName(w)}, web |-> FALSE]
Provisioned_codeServer(w, st, web) ==
  [state |-> st, net |-> networkName(w), binds |-> {volumeName(w)}, web |-> web]
Provisioned_opencode(w, st, web) ==
  [state |-> st, net |-> networkName(w),
   binds |-> {volumeName(w), opencodeDataVolume(w)}, web |-> web]

\* what the engine guarantees of any runtime state: a mounted volume exists,
\* a running container's network exists
EngineConsistent ==
  \A c \in DOMAIN containers :
    /\ containers[c].binds \subseteq volumes
    /\ containers[c].state = "running" => containers[c].net \in networks

\* any leftover of one workspace: each of its resources present or not, each
\* container in any state
InitRemove ==
  /\ \E w \in WorkspaceIds :
       \E present \in SUBSET ContainerNames(w) :
         \E st \in [present -> ContainerStates], web \in [present -> BOOLEAN] :
           /\ containers =
                [c \in present |->
                   IF c = initName(w) THEN Provisioned_init(w, st[c])
                   ELSE IF c = codeServerName(w)
                        THEN Provisioned_codeServer(w, st[c], web[c])
                        ELSE Provisioned_opencode(w, st[c], web[c])]
           /\ \E vs \in SUBSET VolumeNames(w) : volumes = vs
           /\ \E ns \in SUBSET {networkName(w)} :
                /\ networks = {mainNetwork, defaultNetwork} \cup ns
                /\ Quiet(MaxRemoveCalls, MaxFaults, FALSE)
  /\ EngineConsistent
  /\ LifecycleOnly
  /\ calls = NoTrace

\* a direct call of removeWorkspaceContainer(w)
RemoveBegin(w) ==
  /\ Begin(w, "remove", "stop_calls")
  /\ todo' = [todo EXCEPT ![w] = Services]
  /\ hist' = [hist EXCEPT ![w] = Append(@, "remove")]
  /\ UNCHANGED <<rt, rec>>

\* return { success: true }
RemoveReturn(w) ==
  /\ kind[w] = "remove" /\ pc[w] = "rm_return"
  /\ Finish(w, "ok")
  /\ UNCHANGED <<rt, rec, todo, failedAt, error, exitCode, tdFault, hist,
                 reqLeft, faultsLeft, overlap, other>>

NextRemove ==
  \E w \in WorkspaceIds :
    \/ RemoveBegin(w) \/ RemoveReturn(w)
    \/ CleanupInit(w) \/ CleanupNetwork(w) \/ CleanupVolume(w)
    \/ CleanupOpencodeVolume(w)
    \/ \E s \in Services : StopCall(w, s) \/ RemoveCall(w, s)

SpecRemove == InitRemove /\ [][NextRemove]_vars

\* C5: from any runtime state, a second call of removeWorkspaceContainer on
\* the same id returns without raising, and when the runtime answers its
\* removal calls nothing named from the id is left after it.
C5_IdempotentTeardown ==
  \A w \in WorkspaceIds :
    (Idle(w) /\ Len(hist[w]) >= 2) =>
       /\ resp[w] = "ok"
       /\ ~tdFault[w] => NoResources(w)

\* the second call has returned after a first call that left something behind
C5_Witness ==
  \E w \in WorkspaceIds :
    /\ Idle(w) /\ Len(hist[w]) = 2 /\ ~tdFault[w]
    /\ faultsLeft < MaxFaults

(* ------------------- claims on the traced runtime calls ---------------- *)

\* the call `call` of the request in flight on w came back with o
Returned(w, call, o) == <<call, o>> \in Range(calls[w])

\* the call has been issued, whatever it came back with
Issued(w, call) == \E e \in Range(calls[w]) : e[1] = call

\* both stop calls of the request were rejected for a reason other than
\* not-found: the control plane could not be reached
BothStopsRejected(w) ==
  \A s \in Services : Returned(w, "stop:" \o s, "fault")

\* C11: when the stop calls for both service containers fail for a reason
\* other than not-found, stopWorkspaceContainer raises: the stop request never
\* gets to the statement that writes status stopped.
C11_StopEscalates ==
  \A w \in WorkspaceIds :
    (kind[w] = "stop" /\ BothStopsRejected(w)) => pc[w] # "patch_stopped"

(* -------------- GET /api/workspaces/[id]/health (the probe) ------------- *)

lifecycle == <<rec, rt, kind, pc, todo, failedAt, error, exitCode, resp, tdFault,
               hist, reqLeft, faultsLeft, overlap, calls>>

Users == {"u1", "u2"}
NoSession == "none"

\* searchParams.get('service'): null or any string
NoParam == "null"
ServiceParams == {NoParam, "opencode", "vscode", "terminal"}
ProbedServices == {"opencode", "vscode"}

opencodePort == 3001
codeServerPort == 8443

\* `http://${containerName}:${port}`
ProbeUrl(service, id) ==
  IF service = "opencode" THEN <<"http://", opencodeName(id), opencodePort>>
  ELSE <<"http://", codeServerName(id), codeServerPort>>

\* how the single fetch(url, { signal, method: 'HEAD' }) can end: the promise
\* resolves with a response of any status, the abort timer fires, or the
\* connection fails
HttpStatuses == {200, 404, 500}
NoStatus == 0
FetchOutcomes == [t : {"response"}, status : HttpStatuses]
                   \cup [t : {"aborted", "failed"}, status : {NoStatus}]
NotFetched == [t |-> "none", status |-> NoStatus]

\* NextResponse.json(body, { status })
Json(status, field, value) == [status |-> status, field |-> field, value |-> value]
NoResponse == Json(NoStatus, "none", "none")

\* faulty variant: only a successful status counts as ready
HealthBody_OkOnly(o) ==
  IF o.t = "response" /\ o.status < 400 THEN Json(200, "ready", "true")
  ELSE Json(200, "ready", "false")

\* try { await fetch(...); return { ready: true } } catch { return { ready: false } }
HealthBody(o) ==
  IF o.t = "response" THEN Json(200, "ready", "true")
  ELSE Json(200, "ready", "false")

\* the owner of the probed workspace, or none when no such record exists
Owners == Users \cup {"nobody"}

InitProbe ==
  /\ Quiet(0, 0, FALSE)
  /\ containers = <<>>
  /\ volumes = {}
  /\ calls = NoTrace
  /\ synth = NoSynth
  /\ pull = NoPull
  /\ race = NoRace
  /\ prov = NoProv
  /\ guard = NoGuard
  /\ probe \in [at : {"auth"}, session : Users \cup {NoSession},
                service : ServiceParams, id : WorkspaceIds, owner : Owners,
                url : {<<>>}, fetched : {NotFetched}, resp : {NoResponse}]

ProbeAnswer(r) == probe' = [probe EXCEPT !.at = "done", !.resp = r]

\* const session = await auth()
ProbeAuth ==
  /\ probe.at = "auth"
  /\ IF probe.session = NoSession
     THEN ProbeAnswer(Json(401, "error", "Unauthorized"))
     ELSE probe' = [probe EXCEPT !.at = "service"]
  /\ UNCHANGED <<lifecycle, synth, pull, race, prov, guard>>

ProbeService ==
  /\ probe.at = "service"
  /\ IF probe.service = NoParam \/ probe.service \notin ProbedServices
     THEN ProbeAnswer(Json(400, "error", "Invalid service parameter"))
     ELSE probe' = [probe EXCEPT !.at = "lookup"]
  /\ UNCHANGED <<lifecycle, synth, pull, race, prov, guard>>

\* prisma.workspace.findFirst({ where: { id, userId } }); a rejected query
\* reaches the outer catch
ProbeLookup ==
  /\ probe.at = "lookup"
  /\ \E answered \in BOOLEAN :
       IF ~answered THEN ProbeAnswer(Json(500, "error", "Health check failed"))
       ELSE IF probe.owner # probe.session
       THEN ProbeAnswer(Json(404, "error", "Workspace not found"))
       ELSE probe' = [probe EXCEPT !.at = "fetch",
                                   !.url = ProbeUrl(probe.service, probe.id)]
  /\ UNCHANGED <<lifecycle, synth, pull, race, prov, guard>>

ProbeFetch ==
  /\ probe.at = "fetch"
  /\ \E o \in FetchOutcomes :
       probe' = [probe EXCEPT !.at = "done", !.fetched = o, !.resp = HealthBody(o)]
  /\ UNCHANGED <<lifecycle, synth, pull, race, prov, guard>>

NextProbe == ProbeAuth \/ ProbeService \/ ProbeLookup \/ ProbeFetch

SpecProbe == InitProbe /\ [][NextProbe]_vars

\* C12: the probe answers ready true exactly when its single request got an
\* HTTP response, of whatever status; when the request was aborted by the
\* timer or failed at transport level it answers ready false with status 200,
\* not an error response.
C12_ProbeSemantics ==
  probe.at = "done" =>
    /\ (probe.resp.field = "ready" /\ probe.resp.value = "true")
         <=> probe.fetched.t = "response"
    /\ probe.fetched.t \in {"aborted", "failed"}
         => probe.resp = Json(200, "ready", "false")

C12_Witness ==
  /\ probe.at = "done"
  /\ probe.fetched = [t |-> "response", status |-> 404]
  /\ probe.resp = Json(200, "ready", "true")

(* --------- createWorkspaceContainer: agent configuration, labels -------- *)

\* providerId and modelId of the stored rows, in the order the query returns them
ProviderIds == <<"OpenAI", "anthropic">>
ModelIds == <<"m1", "m2">>

\* String.prototype.toLowerCase on the identifiers in use
ToLowerCase(s) == CASE s = "OpenAI" -> "openai" [] OTHER -> s

\* process.env.DOMAIN || 'localhost'
Domains == {"localhost", "example.com"}

\* the LLMModel rows of one provider
StoredModels ==
  UNION {{ms \in [1..n -> [modelId : Range(ModelIds), isEnabled : BOOLEAN,
                           isDefault : BOOLEAN]] :
            \A i \in 1..n : ms[i].modelId = ModelIds[i]} : n \in 0..Len(ModelIds)}

\* the LLMProvider rows of the owner
StoredProviders ==
  UNION {{ps \in [1..n -> [providerId : Range(ProviderIds), isEnabled : BOOLEAN,
                           isDefault : BOOLEAN, models : StoredModels]] :
            \A i \in 1..n : ps[i].providerId = ProviderIds[i]} : n \in 0..Len(ProviderIds)}

IsEnabled(x) == x.isEnabled
IsDefault(x) == x.isDefault

\* lLMProvider.findMany({ where: { userId, isEnabled: true },
\*                        include: { models: { where: { isEnabled: true } } } })
FindMany(stored) ==
  LET enabledRows == SelectSeq(stored, IsEnabled)
  IN [i \in 1..Len(enabledRows) |->
        [enabledRows[i] EXCEPT !.models = SelectSeq(@, IsEnabled)]]

\* Array.prototype.find(x => x.isDefault): the first match, <<>> for undefined
FindDefault(xs) ==
  LET matches == SelectSeq(xs, IsDefault)
  IN IF matches = <<>> THEN <<>> ELSE <<Head(matches)>>

allPossibleProviders ==
  <<"openai", "anthropic", "google", "groq", "openrouter", "mistral", "together",
    "deepseek", "xai", "ollama", "lmstudio">>

enabled_providers(providers) ==
  [i \in 1..Len(providers) |-> ToLowerCase(providers[i].providerId)]

NotEnabledIn(providers) ==
  LET enabled == Range(enabled_providers(providers))
      keep[i \in 0..Len(allPossibleProviders)] ==
        IF i = 0 THEN <<>>
        ELSE IF allPossibleProviders[i] \in enabled THEN keep[i - 1]
        ELSE Append(keep[i - 1], allPossibleProviders[i])
  IN keep[Len(allPossibleProviders)]

\* faulty variant: the first default model of any provider is taken
OpencodeConfig_AcrossProviders(providers) ==
  LET withDefault == SelectSeq(providers, LAMBDA p : FindDefault(p.models) # <<>>)
  IN [model |-> IF withDefault = <<>> THEN <<>>
                ELSE <<ToLowerCase(withDefault[1].providerId) \o "/"
                         \o FindDefault(withDefault[1].models)[1].modelId>>,
      enabled_providers |-> enabled_providers(providers),
      disabled_providers |-> IF Len(providers) > 0 THEN NotEnabledIn(providers)
                             ELSE <<>>]

\* opencodeConfig: the model entry (<<>> when the key is not set) and the
\* lists of provider keys
OpencodeConfig(providers) ==
  LET defaultProvider == FindDefault(providers)
      defaultModel == IF defaultProvider = <<>> THEN <<>>
                      ELSE FindDefault(defaultProvider[1].models)
  IN [model |-> IF defaultModel # <<>> /\ defaultProvider # <<>>
                THEN <<ToLowerCase(defaultProvider[1].providerId) \o "/"
                         \o defaultModel[1].modelId>>
                ELSE <<>>,
      enabled_providers |-> enabled_providers(providers),
      disabled_providers |-> IF Len(providers) > 0 THEN NotEnabledIn(providers)
                             ELSE <<>>]


\* a label is <<key, value>>; a key is the sequence of its dot-separated parts.
\* The rule of a router, written without the backquotes around the host name
Host(name, domain) == "Host(" \o name \o "." \o domain \o ")"

\* Labels of the code-server container
codeServerLabels(id, domain) ==
  { <<<<"traefik", "enable">>, "true">>,
    <<<<"traefik", "docker", "network">>, mainNetwork>>,
    <<<<"traefik", "http", "routers", "vscode-" \o id, "rule">>,
      Host("vscode-" \o id, domain)>>,
    <<<<"traefik", "http", "services", "vscode-" \o id, "loadbalancer", "server", "port">>,
      "8443">>,
    <<<<"traefik", "http", "routers", "vscode-" \o id, "entrypoints">>, "web">>,
    <<<<"workspace", "id">>, id>> }

\* faulty variant: the header-clearing middleware is attached to the
\* agent's router as well
opencodeLabels_AllRouters(id, domain) ==
  { <<<<"traefik", "http", "routers", "opencode-" \o id, "rule">>,
      Host("opencode-" \o id, domain)>>,
    <<<<"traefik", "http", "routers", "opencode-" \o id, "middlewares">>,
      "preview-headers-" \o id>>,
    <<<<"traefik", "http", "routers", "preview-" \o id, "rule">>,
      Host("preview-" \o id, domain)>>,
    <<<<"traefik", "http", "middlewares", "preview-headers-" \o id, "headers",
        "customResponseHeaders", "X-Frame-Options">>, "">>,
    <<<<"traefik", "http", "middlewares", "preview-headers-" \o id, "headers",
        "customResponseHeaders", "Content-Security-Policy">>, "">>,
    <<<<"traefik", "http", "routers", "preview-" \o id, "middlewares">>,
      "preview-headers-" \o id>> }

\* Labels of the opencode container
opencodeLabels(id, domain) ==
  { <<<<"traefik", "enable">>, "true">>,
    <<<<"traefik", "docker", "network">>, mainNetwork>>,
    <<<<"traefik", "http", "routers", "opencode-" \o id, "rule">>,
      Host("opencode-" \o id, domain)>>,
    <<<<"traefik", "http", "routers", "opencode-" \o id, "service">>, "opencode-" \o id>>,
    <<<<"traefik", "http", "routers", "opencode-" \o id, "entrypoints">>, "web">>,
    <<<<"traefik", "http", "services", "opencode-" \o id, "loadbalancer", "server", "port">>,
      "3001">>,
    <<<<"traefik", "http", "routers", "preview-" \o id, "rule">>,
      Host("preview-" \o id, domain)>>,
    <<<<"traefik", "http", "routers", "preview-" \o id, "service">>, "preview-" \o id>>,
    <<<<"traefik", "http", "routers", "preview-" \o id, "entrypoints">>, "web">>,
    <<<<"traefik", "http", "services", "preview-" \o id, "loadbalancer", "server", "port">>,
      "3000">>,
    <<<<"traefik", "http", "middlewares", "preview-headers-" \o id, "headers",
        "customResponseHeaders", "X-Frame-Options">>, "">>,
    <<<<"traefik", "http", "middlewares", "preview-headers-" \o id, "headers",
        "customResponseHeaders", "Content-Security-Policy">>, "">>,
    <<<<"traefik", "http", "routers", "preview-" \o id, "middlewares">>,
      "preview-headers-" \o id>>,
    <<<<"workspace", "id">>, id>> }

NoConfig == [model |-> <<>>, enabled_providers |-> <<>>, disabled_providers |-> <<>>]

\* one call of createWorkspaceContainer: the workspace id, the domain of the
\* deployment and the provider rows of the owner
InitSynth ==
  /\ Quiet(0, 0, FALSE)
  /\ containers = <<>>
  /\ volumes = {}
  /\ calls = NoTrace
  /\ probe = NoProbe
  /\ pull = NoPull
  /\ race = NoRace
  /\ prov = NoProv
  /\ guard = NoGuard
  /\ synth \in [at : {"fetch"}, id : WorkspaceIds, domain : Domains,
                stored : StoredProviders, providers : {<<>>}, config : {NoConfig},
                codeServerLabels : {{}}, opencodeLabels : {{}}]

SynthFetch ==
  /\ synth.at = "fetch"
  /\ synth' = [synth EXCEPT !.at = "config", !.providers = FindMany(synth.stored)]
  /\ UNCHANGED <<lifecycle, probe, pull, race, prov, guard>>

SynthConfig ==
  /\ synth.at = "config"
  /\ synth' = [synth EXCEPT !.at = "code-server",
                            !.config = OpencodeConfig(synth.providers)]
  /\ UNCHANGED <<lifecycle, probe, pull, race, prov, guard>>

SynthCodeServer ==
  /\ synth.at = "code-server"
  /\ synth' = [synth EXCEPT !.at = "opencode",
                 !.codeServerLabels = codeServerLabels(synth.id, synth.domain)]
  /\ UNCHANGED <<lifecycle, probe, pull, race, prov, guard>>

SynthOpencode ==
  /\ synth.at = "opencode"
  /\ synth' = [synth EXCEPT !.at = "done",
                 !.opencodeLabels = opencodeLabels(synth.id, synth.domain)]
  /\ UNCHANGED <<lifecycle, probe, pull, race, prov, guard>>

NextSynth == SynthFetch \/ SynthConfig \/ SynthCodeServer \/ SynthOpencode

SpecSynth == InitSynth /\ [][NextSynth]_vars

\* positions of the enabled models marked default, over all enabled providers
DefaultModels(providers) ==
  {<<i, j>> \in (1..Len(providers)) \X (1..Len(ModelIds)) :
     j <= Len(providers[i].models) /\ providers[i].models[j].isDefault}

Min(S) == CHOOSE x \in S : \A y \in S : x <= y

Routers(labels) ==
  {kv[1][4] : kv \in {x \in labels : Len(x[1]) >= 4 /\ x[1][3] = "routers"}}
MiddlewaresOf(labels, router) ==
  {kv[2] : kv \in {x \in labels :
                     x[1] = <<"traefik", "http", "routers", router, "middlewares">>}}

\* the response headers a middleware of the label set overwrites, with the value
ClearedHeaders(labels, middleware) ==
  {<<kv[1][7], kv[2]>> : kv \in {x \in labels :
      /\ Len(x[1]) = 7
      /\ SubSeq(x[1], 1, 6) = <<"traefik", "http", "middlewares", middleware,
                                "headers", "customResponseHeaders">>}}

\* C14: of the routers declared by the labels of the two service containers,
\* only the preview router references a middleware, the one that sets
\* X-Frame-Options and Content-Security-Policy to the empty string; the
\* agent's router and the editor's router reference none.
C14_HeaderStrippingOnPreviewOnly ==
  synth.at = "done" =>
    LET labels == synth.codeServerLabels \cup synth.opencodeLabels
        preview == "preview-" \o synth.id
    IN /\ \A r \in Routers(labels) : MiddlewaresOf(labels, r) # {} => r = preview
       /\ MiddlewaresOf(labels, preview) = {"preview-headers-" \o synth.id}
       /\ ClearedHeaders(labels, "preview-headers-" \o synth.id)
            = {<<"X-Frame-Options", "">>, <<"Content-Security-Policy", "">>}
       /\ MiddlewaresOf(labels, "opencode-" \o synth.id) = {}
       /\ MiddlewaresOf(labels, "vscode-" \o synth.id) = {}

C14_Witness ==
  /\ synth.at = "done"
  /\ Routers(synth.codeServerLabels) = {"vscode-" \o synth.id}
  /\ Routers(synth.opencodeLabels) = {"opencode-" \o synth.id, "preview-" \o synth.id}
  /\ MiddlewaresOf(synth.opencodeLabels, "preview-" \o synth.id) # {}


(* ------------ order and completeness of the traced calls --------------- *)

StopCalls == {"stop:" \o s : s \in Services}
RemoveCalls == {"remove:" \o s : s \in Services}
VolumeSteps == {"cl_vol", "cl_ocvol"}

\* the calls of createWorkspaceContainer that create a resource
CreationSteps == {"vol_data", "vol_opencode", "network", "init_create",
                  "cs_create", "oc_create"}

\* the order of removeWorkspaceContainer as the code has it, and with the
\* init container last
TeardownStages == <<StopCalls, RemoveCalls, {"cl_init"}, {"cl_net"}, VolumeSteps>>
InitLastStages == <<StopCalls, RemoveCalls, {"cl_net"}, VolumeSteps, {"cl_init"}>>

StageOf(stages, call) == CHOOSE k \in DOMAIN stages : call \in stages[k]

\* no call of a later stage was issued before a call of an earlier one
InOrder(w, stages) ==
  \A i, j \in DOMAIN calls[w] :
    i < j => StageOf(stages, calls[w][i][1]) <= StageOf(stages, calls[w][j][1])

CallsIssued(w) == {calls[w][i][1] : i \in DOMAIN calls[w]}

\* removeWorkspaceContainer has returned to DELETE
RemoveReturned(w) == kind[w] = "delete" /\ pc[w] = "del_record"

\* C15 as stated: removeWorkspaceContainer stops both service containers,
\* removes both, removes the network, removes both volumes and only then
\* removes the init container.
C15_InitContainerLast ==
  \A w \in WorkspaceIds :
    /\ kind[w] = "delete" => InOrder(w, InitLastStages)
    /\ RemoveReturned(w) => CallsIssued(w) = UNION Range(InitLastStages)

\* C15, amended: removeWorkspaceContainer stops both service containers,
\* removes both, then removes the init container, then the network, then
\* both volumes; when it returns each of the eight calls has been issued once.
C15_TeardownOrder ==
  \A w \in WorkspaceIds :
    /\ kind[w] = "delete" => InOrder(w, TeardownStages)
    /\ RemoveReturned(w) =>
         /\ CallsIssued(w) = UNION Range(TeardownStages)
         /\ Len(calls[w]) = Cardinality(UNION Range(TeardownStages))

C15_Witness ==
  \E w \in WorkspaceIds :
    /\ RemoveReturned(w)
    /\ \A e \in Range(calls[w]) : e[1] # "cl_init" => e[2] = "ok"

\* the call that removes container c of workspace w
RemovalOf(w, c) == IF c = initName(w) THEN "cl_init"
                   ELSE IF c = codeServerName(w) THEN "remove:code-server"
                   ELSE "remove:opencode"

\* container c is on the workspace's network or mounts one of its volumes
References(w, c) ==
  \/ containers[c].net = networkName(w)
  \/ containers[c].binds \cap VolumeNames(w) # {}

\* C16: whenever removal of the workspace's network or of one of its volumes
\* is about to be issued or has been issued, in removal and in rollback alike,
\* removal of every existing container that references them has been
\* attempted before.
C16_ContainersBeforeBacking ==
  \A w \in WorkspaceIds :
    (kind[w] \in {"create", "delete"}
       /\ (pc[w] \in {"cl_net"} \cup VolumeSteps \/ Issued(w, "cl_net")))
    => \A c \in OwnContainers(w) : References(w, c) => Issued(w, RemovalOf(w, c))


\* C17: the create request writes status error only from the position that
\* follows cleanupWorkspace, every removal call of which has been issued by then.
C17_ErrorAfterRollback ==
  [][\A w \in WorkspaceIds :
       (rec'[w] = "error" /\ rec[w] # "error")
         => /\ CreateRaised(w)
            /\ CleanupSteps \subseteq CallsIssued(w)]_vars

C17_Witness ==
  \E w \in WorkspaceIds :
    Idle(w) /\ rec[w] = "error" /\ resp[w] = "raised" /\ failedAt[w] \in LateSteps

\* the calls the try block issued before the catch block took over, and the
\* calls of the rollback
Provisioning(w) == SelectSeq(calls[w], LAMBDA e : e[1] \in TrySteps)
Rollback(w) == SelectSeq(calls[w], LAMBDA e : e[1] \in CleanupSteps)

\* what the try block threw: the rejection of its last call or, when that
\* call (reading the logs of the init container) was answered, the clone error
Thrown(w) ==
  LET last == Provisioning(w)[Len(Provisioning(w))]
  IN IF last[2] = "ok" THEN <<"Failed to clone repository. Exit code: ", ToString(exitCode[w])>>
     ELSE last

\* C18: when createWorkspaceContainer raises, the exception is the one the
\* failed provisioning step threw, whatever the rollback's removal calls came
\* back with, and each of the four rollback steps has been attempted.
C18_OriginalErrorRaised ==
  \A w \in WorkspaceIds :
    CreateRaised(w) =>
      /\ error[w] = Thrown(w)
      /\ \A e \in Range(Rollback(w)) : error[w] # e
      /\ [i \in DOMAIN Rollback(w) |-> Rollback(w)[i][1]]
           = <<"cl_init", "cl_net", "cl_vol", "cl_ocvol">>

\* a rollback in which two removal calls failed, one of them rejected outright
C18_Witness ==
  \E w \in WorkspaceIds :
    /\ CreateRaised(w)
    /\ \E e \in Range(Rollback(w)) : e[2] = "fault"
    /\ Cardinality({i \in DOMAIN Rollback(w) : Rollback(w)[i][2] # "ok"}) >= 2

\* C19: in cleanupWorkspace a removal step, whatever it comes back with, is
\* followed by the next removal step or, after the last, by the return to the
\* caller: no step is skipped and the function does not raise.
C19_CleanupStepsIndependent ==
  [][\A w \in WorkspaceIds :
       (pc[w] \in CleanupSteps /\ pc'[w] # pc[w])
         => /\ kind'[w] = kind[w]
            /\ Len(calls'[w]) = Len(calls[w]) + 1
            /\ pc'[w] = CASE pc[w] = "cl_init" -> "cl_net"
                          [] pc[w] = "cl_net" -> "cl_vol"
                          [] pc[w] = "cl_vol" -> "cl_ocvol"
                          [] OTHER -> IF kind[w] = "create" THEN "post_error"
                                      ELSE "del_record"]_vars

\* the network removal was rejected and both volume removals were still issued
C19_Witness ==
  \E w \in WorkspaceIds :
    /\ RemoveReturned(w)
    /\ Returned(w, "cl_net", "fault")
    /\ VolumeSteps \subseteq CallsIssued(w)

\* C20: once the pull of the images has failed, createWorkspaceContainer is
\* on its way to raise and no call that creates a volume, a network or a
\* container of the workspace has been or is issued.
C20_PullFailureCreatesNothing ==
  \A w \in WorkspaceIds :
    (kind[w] = "create" /\ \E e \in Range(calls[w]) : e[1] = "pull" /\ e[2] # "ok")
      => /\ CallsIssued(w) \cap CreationSteps = {}
         /\ pc[w] \in CleanupSteps \cup {"post_error"}
         /\ NoResources(w)

C20_Witness ==
  \E w \in WorkspaceIds :
    CreateRaised(w) /\ Returned(w, "pull", "fault") /\ error[w] = <<"pull", "fault">>


(* ------------- createWorkspaceContainer: the image pulls --------------- *)

gitImage == "alpine/git:latest"
codeServerImage == "codercom/code-server:latest"
opencodeImage == "ghcr.io/anomalyco/opencode:0.0.0-beta-202601311004"
Images == {gitImage, codeServerImage, opencodeImage}

\* faulty variant: the answer of the listing is not looked at
AfterListing_AlwaysPull(answered, present) == "pull"

\* pullImageIfNeeded after docker.listImages: return when the listing was
\* answered with a match, otherwise (no match, or the listing threw) pull
AfterListing(answered, present) ==
  IF answered /\ present THEN "resolved" ELSE "pull"

\* one call of createWorkspaceContainer has reached its first statement: the
\* three calls of pullImageIfNeeded have run up to their listing call
InitPull ==
  /\ Quiet(0, 0, FALSE)
  /\ containers = <<>>
  /\ volumes = {}
  /\ calls = NoTrace
  /\ probe = NoProbe
  /\ synth = NoSynth
  /\ race = NoRace
  /\ prov = NoProv
  /\ guard = NoGuard
  /\ \E local \in SUBSET Images :
       pull = [main |-> "await", local |-> local,
               at |-> [i \in Images |-> "list"],
               listed |-> [i \in Images |-> "none"],
               wasLocal |-> [i \in Images |-> FALSE],
               pulled |-> {}]

\* the state of the awaited Promise.all once the promise of one image has
\* settled: it rejects with the first rejection, resolves when all have
\* resolved; the continuation (the catch block up to the first removal call
\* of cleanupWorkspace, or the statement after the await) runs in the same turn
Awaited(main, at) ==
  IF main # "await" THEN main
  ELSE IF \E i \in Images : at[i] = "rejected" THEN "cl_init"
  ELSE IF \A i \in Images : at[i] = "resolved" THEN "create"
  ELSE "await"

PullSettle(at) == pull' = [pull EXCEPT !.at = at, !.main = Awaited(pull.main, at)]

\* docker.listImages({ filters: { reference: [imageName] } }) comes back
ListImages(i) ==
  /\ pull.main # "none" /\ pull.at[i] = "list"
  /\ \E answered \in BOOLEAN :
       LET next == AfterListing(answered, i \in pull.local)
           at == [pull.at EXCEPT ![i] = next]
       IN pull' = [pull EXCEPT
            !.at = at,
            !.main = Awaited(pull.main, at),
            !.listed[i] = IF ~answered THEN "failed"
                          ELSE IF i \in pull.local THEN "present" ELSE "absent",
            !.wasLocal[i] = i \in pull.local,
            !.pulled = IF next = "pull" THEN @ \cup {i} ELSE @]
  /\ UNCHANGED <<lifecycle, probe, synth, race, prov, guard>>

\* the callback of docker.pull(imageName, (err, stream) => ...)
PullAnswered(i) ==
  /\ pull.main # "none" /\ pull.at[i] = "pull"
  /\ \E err \in BOOLEAN :
       PullSettle([pull.at EXCEPT ![i] = IF err THEN "rejected" ELSE "progress"])
  /\ UNCHANGED <<lifecycle, probe, synth, race, prov, guard>>

\* the callback of docker.modem.followProgress(stream, (pullErr) => ...)
PullFollowed(i) ==
  /\ pull.main # "none" /\ pull.at[i] = "progress"
  /\ \E pullErr \in BOOLEAN :
       IF pullErr THEN PullSettle([pull.at EXCEPT ![i] = "rejected"])
       ELSE LET at == [pull.at EXCEPT ![i] = "resolved"]
            IN pull' = [pull EXCEPT !.at = at, !.main = Awaited(pull.main, at),
                                    !.local = @ \cup {i}]
  /\ UNCHANGED <<lifecycle, probe, synth, race, prov, guard>>

\* the catch block: the removal calls of cleanupWorkspace, then `throw error`
PullRollback ==
  /\ pull.main \in CleanupSteps
  /\ pull' = [pull EXCEPT !.main = CASE pull.main = "cl_init" -> "cl_net"
                                     [] pull.main = "cl_net" -> "cl_vol"
                                     [] pull.main = "cl_vol" -> "cl_ocvol"
                                     [] OTHER -> "raised"]
  /\ UNCHANGED <<lifecycle, probe, synth, race, prov, guard>>

NextPull ==
  \/ \E i \in Images : ListImages(i) \/ PullAnswered(i) \/ PullFollowed(i)
  \/ PullRollback

SpecPull == InitPull /\ [][NextPull]_vars

InFlight(i) == pull.at[i] \in {"list", "pull", "progress"}

\* C21: while the rollback runs and when createWorkspaceContainer has raised
\* after a failed pull, none of the three pulls is still in flight.
C21_AbortWaitsForAllPulls ==
  pull.main \in CleanupSteps \cup {"raised"} => \A i \in Images : ~InFlight(i)

\* C22 as stated: a pull is issued only for an image that was not present
\* locally when pullImageIfNeeded looked, whatever the listing came back with.
C22_PullOnlyWhenAbsent ==
  pull.main # "none" => \A i \in pull.pulled : ~pull.wasLocal[i]

\* C22, amended: a pull is issued for an image exactly when the listing was
\* answered without a match or was not answered at all; for an image the
\* listing reports present no pull is issued and the function returns.
C22_PullUnlessListedPresent ==
  pull.main # "none" =>
    \A i \in Images :
      /\ i \in pull.pulled <=> pull.listed[i] \in {"absent", "failed"}
      /\ pull.listed[i] = "present" => pull.wasLocal[i] /\ pull.at[i] = "resolved"
      /\ pull.listed[i] = "absent" => ~pull.wasLocal[i]

\* an image present locally is pulled again after its listing failed
C22_Witness ==
  /\ pull.main # "none"
  /\ \E i \in pull.pulled : pull.wasLocal[i] /\ pull.listed[i] = "failed"
  /\ \E i \in Images : pull.listed[i] = "present"


(* ------------------------- frame of the operations --------------------- *)

\* what the runtime holds under the names derived from workspace id b
ResourcesOf(cs, ns, vs, b) ==
  [containers |-> [c \in ContainerNames(b) \cap DOMAIN cs |-> cs[c]],
   network |-> networkName(b) \in ns,
   volumes |-> VolumeNames(b) \cap vs]

\* the step is a step of the request in flight on w
Acts(w) == pc'[w] # pc[w] \/ kind'[w] # kind[w] \/ todo'[w] # todo[w]

\* C23: a step of a request on workspace a leaves the containers, the
\* isolated network and the volumes of every other workspace as they are;
\* the shared network is never removed, only service containers are ever
\* attached to it, and a container that stays is never detached from it.
C23_OwnWorkspaceOnly ==
  /\ [](/\ mainNetwork \in networks
        /\ \A c \in DOMAIN containers :
             containers[c].web =>
               \E w \in WorkspaceIds : c \in {codeServerName(w), opencodeName(w)})
  /\ [][/\ \A b \in WorkspaceIds :
             ~Acts(b) => ResourcesOf(containers', networks', volumes', b)
                           = ResourcesOf(containers, networks, volumes, b)
        /\ \A c \in DOMAIN containers \cap DOMAIN containers' :
             containers[c].web => containers'[c].web]_vars

\* the removal of one workspace has run to its end while the other is
\* provisioned and running
C23_Witness ==
  \E a, b \in WorkspaceIds :
    /\ a # b
    /\ RemoveReturned(a) /\ NoResources(a)
    /\ HasTopology(b) /\ BothRunning(b)
    /\ \A s \in Services : containers[serviceName(s, b)].web


\* container record without its run state
Created(r) == [net |-> r.net, binds |-> r.binds, web |-> r.web]

\* C24: a step of a stop or start request creates and removes no container,
\* network or volume; every container keeps its network, its mounts and its
\* attachment to the shared network, only its run state may change.
C24_StopStartPreserve ==
  [][\A w \in WorkspaceIds :
       (kind[w] \in {"stop", "start"} /\ Acts(w))
         => /\ networks' = networks
            /\ volumes' = volumes
            /\ DOMAIN containers' = DOMAIN containers
            /\ \A c \in DOMAIN containers :
                 Created(containers'[c]) = Created(containers[c])]_vars

\* a start request that follows a stop request has started both containers
C24_Witness ==
  \E w \in WorkspaceIds :
    /\ kind[w] = "start" /\ pc[w] = "patch_running" /\ rec[w] = "stopped"
    /\ Provisioned(w) /\ HasTopology(w) /\ BothRunning(w)
    /\ \A s \in Services : containers[serviceName(s, w)].web


\* call `a` was answered ok before call `b` was issued
OkBefore(w, a, b) ==
  \A j \in DOMAIN calls[w] :
    calls[w][j][1] = b => \E i \in 1..(j - 1) : calls[w][i] = <<a, "ok">>

\* C25: in createWorkspaceContainer the isolated network has been created
\* before either service container is created, both volumes before the init
\* container, and the init container has exited with code 0 and has been
\* removed before either service container is created.
C25_CreationOrder ==
  \A w \in WorkspaceIds :
    kind[w] = "create" =>
      /\ OkBefore(w, "vol_data", "init_create")
      /\ OkBefore(w, "vol_opencode", "init_create")
      /\ \A svc \in {"cs_create", "oc_create"} :
           /\ OkBefore(w, "network", svc)
           /\ OkBefore(w, "init_wait", svc)
           /\ OkBefore(w, "init_remove", svc)
           /\ Issued(w, svc) => exitCode[w] = 0 /\ ~Exists(initName(w))

C25_Witness ==
  \E w \in WorkspaceIds :
    /\ kind[w] = "create" /\ pc[w] = "post_running"
    /\ Exists(codeServerName(w)) /\ Exists(opencodeName(w))


(* ------------- two requests at once on the same workspace -------------- *)

\* budgets of the behaviours in which a second request runs on a workspace
\* beside the request in flight
RaceRequests == 3
RaceFaults == 1

InitRace ==
  /\ Quiet(RaceRequests, RaceFaults, FALSE)
  /\ LifecycleOnly
  /\ calls = NoTrace
  /\ containers = <<>>
  /\ volumes = {}

\* the part of the state that the steps of the second request leave alone
slot == <<kind, pc, todo, failedAt, error, exitCode, resp, tdFault, hist,
          overlap, calls, probe, synth, pull, prov, guard>>

\* PATCH { action: 'stop' } or DELETE arrives while another request on w is
\* between two of its awaits: findFirst finds the record and the handler
\* goes on to its runtime calls
RaceBegin(w, k) ==
  /\ race = NoRace
  /\ kind[w] # "none"
  /\ Found(w)
  /\ reqLeft > 0
  /\ reqLeft' = reqLeft - 1
  /\ race' = [kind |-> k, w |-> w, during |-> kind[w], pc |-> "stop_calls",
              todo |-> Services, resp |-> "none"]
  /\ UNCHANGED <<rec, rt, faultsLeft, slot>>

RaceAt(k, at) == race.kind \in k /\ race.pc = at

\* one call of a Promise.all of the second request has settled
RaceSettle(s, next, nextTodo) ==
  race' = [race EXCEPT !.todo = IF @ = {s} THEN nextTodo ELSE @ \ {s},
                       !.pc = IF race.todo = {s} THEN next ELSE @]

\* stopWorkspaceContainer in the second request
RaceStopCall(s) ==
  /\ RaceAt({"stop", "delete"}, "stop_calls")
  /\ s \in race.todo
  /\ \E o \in Outcomes(AnsStop(serviceName(s, race.w))) :
       /\ IF o = "ok" THEN DoSetState(serviceName(s, race.w), "exited") ELSE UNCHANGED rt
       /\ Resolved(Caught(o))
       /\ Count(o)
  /\ IF race.kind = "stop" THEN RaceSettle(s, "patch_stopped", {})
                           ELSE RaceSettle(s, "rm_calls", Services)
  /\ UNCHANGED <<rec, reqLeft, slot>>

\* removeWorkspaceContainer in the second request
RaceRemoveCall(s) ==
  /\ RaceAt({"delete"}, "rm_calls")
  /\ s \in race.todo
  /\ \E o \in Outcomes(AnsRemoveContainer(serviceName(s, race.w), TRUE)) :
       /\ IF o = "ok" THEN DoRemoveContainer(serviceName(s, race.w)) ELSE UNCHANGED rt
       /\ Resolved(Caught(o))
       /\ Count(o)
  /\ RaceSettle(s, "cl_init", {})
  /\ UNCHANGED <<rec, reqLeft, slot>>

\* one step of cleanupWorkspace in the second request
RaceCleanupStep(step, next, o) ==
  /\ RaceAt({"delete"}, step)
  /\ race' = [race EXCEPT !.pc = next]
  /\ Count(o)
  /\ UNCHANGED <<rec, reqLeft, slot>>

RaceCleanupInit ==
  /\ race.kind = "delete"
  /\ \E o \in Outcomes(AnsRemoveContainer(initName(race.w), TRUE)) :
       /\ RaceCleanupStep("cl_init", "cl_net", o)
       /\ IF o = "ok" THEN DoRemoveContainer(initName(race.w)) ELSE UNCHANGED rt

RaceCleanupNetwork ==
  /\ race.kind = "delete"
  /\ \E o \in Outcomes(AnsRemoveNetwork(networkName(race.w))) :
       /\ RaceCleanupStep("cl_net", "cl_vol", o)
       /\ IF o = "ok" THEN DoRemoveNetwork(networkName(race.w)) ELSE UNCHANGED rt

RaceCleanupVolume ==
  /\ race.kind = "delete"
  /\ \E o \in Outcomes(AnsRemoveVolume(volumeName(race.w))) :
       /\ RaceCleanupStep("cl_vol", "cl_ocvol", o)
       /\ IF o = "ok" THEN DoRemoveVolume(volumeName(race.w)) ELSE UNCHANGED rt

RaceCleanupOpencodeVolume ==
  /\ race.kind = "delete"
  /\ \E o \in Outcomes(AnsRemoveVolume(opencodeDataVolume(race.w))) :
       /\ RaceCleanupStep("cl_ocvol", "del_record", o)
       /\ IF o = "ok" THEN DoRemoveVolume(opencodeDataVolume(race.w)) ELSE UNCHANGED rt

\* the second request writes status 'stopped' and answers
RaceStopRecord ==
  /\ RaceAt({"stop"}, "patch_stopped")
  /\ Update(race.w, "stopped")
  /\ race' = [race EXCEPT !.pc = "done", !.resp = Written(race.w)]
  /\ UNCHANGED <<rt, reqLeft, faultsLeft, slot>>

\* the second request deletes the record and answers
RaceDeleteRecord ==
  /\ RaceAt({"delete"}, "del_record")
  /\ rec' = [rec EXCEPT ![race.w] = "deleted"]
  /\ race' = [race EXCEPT !.pc = "done", !.resp = Written(race.w)]
  /\ UNCHANGED <<rt, reqLeft, faultsLeft, slot>>

NextRace ==
  \/ Next
  \/ \E w \in WorkspaceIds, k \in {"stop", "delete"} : RaceBegin(w, k)
  \/ \E s \in Services : RaceStopCall(s) \/ RaceRemoveCall(s)
  \/ RaceCleanupInit \/ RaceCleanupNetwork \/ RaceCleanupVolume
  \/ RaceCleanupOpencodeVolume
  \/ RaceStopRecord \/ RaceDeleteRecord

SpecRace == InitRace /\ [][NextRace]_vars

\* the second request, of kind k, arrived while a request of kind `during`
\* was in flight on its workspace, and both have answered
BothFinished(k, during) ==
  /\ race.kind = k
  /\ race.during = during
  /\ race.pc = "done"
  /\ Idle(race.w)

\* C26: when a DELETE arrives while the create request of the workspace is
\* still provisioning, then once both have answered either the record still
\* exists or no container, network or volume of the workspace exists
C26_DeleteDuringCreate ==
  BothFinished("delete", "create") => Found(race.w) \/ NoResources(race.w)


BothStopped(w) ==
  \A s \in Services :
    Exists(serviceName(s, w)) /\ containers[serviceName(s, w)].state = "exited"

\* no runtime call of the behaviour has come back with a fault
NoFaultYet == faultsLeft = RaceFaults

\* C27: when a stop request arrives while a start request for the same
\* provisioned workspace is in flight, and no runtime call fails, then once
\* both have answered the status is running exactly when both service
\* containers are running and stopped exactly when both are stopped
C27_StartStopAgree ==
  (BothFinished("stop", "start") /\ Provisioned(race.w) /\ NoFaultYet) =>
     /\ rec[race.w] = "running" <=> BothRunning(race.w)
     /\ rec[race.w] = "stopped" <=> BothStopped(race.w)


(* ---------------- POST /api/providers, PUT /api/providers/[id] --------- *)

\* the provider records one user can have, and the requests that can be in
\* flight at once
ProviderRecords == {"p1", "p2"}
ProviderSlots == {"r1", "r2"}
ProviderRequests == 3

\* isDefault of a request body: PUT leaves the field alone when it is absent
BodyDefaults == {"true", "false", "undefined"}

NoRequest == [op |-> "none", p |-> "none", isDefault |-> "undefined",
              at |-> "idle", existing |-> "none", resp |-> "none"]

DefaultsOf(stored) == {p \in ProviderRecords : stored[p] = "default"}

\* the records of the user before the requests: each absent, default or not
\* default, with at most one default
InitProv ==
  /\ Quiet(0, 0, FALSE)
  /\ containers = <<>>
  /\ volumes = {}
  /\ calls = NoTrace
  /\ probe = NoProbe
  /\ synth = NoSynth
  /\ pull = NoPull
  /\ race = NoRace
  /\ guard = NoGuard
  /\ \E stored \in [ProviderRecords -> {"absent", "default", "plain"}] :
       /\ Cardinality(DefaultsOf(stored)) <= 1
       /\ prov = [at |-> "serving", stored |-> stored, left |-> ProviderRequests,
                  req |-> [r \in ProviderSlots |-> NoRequest]]

ProvStep(r, request, stored) ==
  /\ prov' = [prov EXCEPT !.req[r] = request, !.stored = stored]
  /\ UNCHANGED <<lifecycle, probe, synth, pull, race, guard>>

ProvAnswer(r, status) == [prov.req[r] EXCEPT !.at = "idle", !.resp = status]

\* `isDefault = false` of POST's destructuring
PostDefault(d) == IF d = "undefined" THEN "false" ELSE d

\* lLMProvider.updateMany({ where: { userId, isDefault: true },
\*                          data: { isDefault: false } })
UnsetDefaults(stored) ==
  [p \in ProviderRecords |-> IF stored[p] = "default" THEN "plain" ELSE stored[p]]

Flag(d) == IF d = "true" THEN "default" ELSE "plain"

\* POST: the body is valid; findUnique looks for a provider of the same id
ProviderPost(r, p, d) ==
  /\ prov.at = "serving" /\ prov.req[r].at = "idle" /\ prov.left > 0
  /\ prov' = [prov EXCEPT !.left = @ - 1,
               !.req[r] = IF prov.stored[p] # "absent"
                          THEN [NoRequest EXCEPT !.op = "post", !.p = p, !.resp = "409"]
                          ELSE [op |-> "post", p |-> p, isDefault |-> PostDefault(d),
                                at |-> IF PostDefault(d) = "true" THEN "unset" ELSE "write",
                                existing |-> "absent", resp |-> "none"]]
  /\ UNCHANGED <<lifecycle, probe, synth, pull, race, guard>>

\* PUT: findUnique reads the record; 404 when there is none
ProviderPut(r, p, d) ==
  /\ prov.at = "serving" /\ prov.req[r].at = "idle" /\ prov.left > 0
  /\ prov' = [prov EXCEPT !.left = @ - 1,
               !.req[r] = IF prov.stored[p] = "absent"
                          THEN [NoRequest EXCEPT !.op = "put", !.p = p, !.resp = "404"]
                          ELSE [op |-> "put", p |-> p, isDefault |-> d,
                                at |-> IF d = "true" /\ prov.stored[p] # "default"
                                       THEN "unset" ELSE "write",
                                existing |-> prov.stored[p], resp |-> "none"]]
  /\ UNCHANGED <<lifecycle, probe, synth, pull, race, guard>>

\* `if (isDefault) updateMany(...)` of POST, `if (isDefault &&
\* !existing.isDefault) updateMany(...)` of PUT
ProviderUnset(r) ==
  /\ prov.at = "serving" /\ prov.req[r].at = "unset"
  /\ ProvStep(r, [prov.req[r] EXCEPT !.at = "write"], UnsetDefaults(prov.stored))

\* lLMProvider.create({ data: { ..., isDefault } }) of POST: the unique index
\* on (userId, providerId) rejects a second record of the same id
ProviderCreate(r) ==
  /\ prov.at = "serving" /\ prov.req[r].at = "write" /\ prov.req[r].op = "post"
  /\ IF prov.stored[prov.req[r].p] = "absent"
     THEN ProvStep(r, ProvAnswer(r, "201"),
                   [prov.stored EXCEPT ![prov.req[r].p] = Flag(prov.req[r].isDefault)])
     ELSE ProvStep(r, ProvAnswer(r, "500"), prov.stored)

\* lLMProvider.update({ where: { id }, data: updateData }) of PUT:
\* `if (isDefault !== undefined) updateData.isDefault = isDefault`
ProviderUpdate(r) ==
  /\ prov.at = "serving" /\ prov.req[r].at = "write" /\ prov.req[r].op = "put"
  /\ ProvStep(r, ProvAnswer(r, "200"),
              IF prov.req[r].isDefault = "undefined" THEN prov.stored
              ELSE [prov.stored EXCEPT ![prov.req[r].p] = Flag(prov.req[r].isDefault)])

NextProv ==
  \E r \in ProviderSlots :
    \/ \E p \in ProviderRecords, d \in BodyDefaults :
         ProviderPost(r, p, d) \/ ProviderPut(r, p, d)
    \/ ProviderUnset(r) \/ ProviderCreate(r) \/ ProviderUpdate(r)

SpecProv == InitProv /\ [][NextProv]_vars

\* C28: after any sequence of provider create and update requests of one
\* user, interleaved or not, at most one provider record of the user has
\* isDefault set
C28_AtMostOneDefault ==
  prov.at = "serving" => Cardinality(DefaultsOf(prov.stored)) <= 1


(* ------- session and ownership checks of /api/workspaces/[id]/... ------ *)

\* number of requests routed in one behaviour
GuardRequests == 2

Routes == {"get", "patch", "delete", "health"}

\* `action` of a PATCH body; "restart" stands for any other value
PatchActions == {"start", "stop", "restart"}
NoAction == "none"

\* the state of a workspace whose provisioning has succeeded
ProvisionedContainers(ws) ==
  [c \in UNION {{codeServerName(w), opencodeName(w)} : w \in ws} |->
     LET w == CHOOSE v \in ws : c \in {codeServerName(v), opencodeName(v)}
     IN  IF c = codeServerName(w) THEN Provisioned_codeServer(w, "running", TRUE)
         ELSE Provisioned_opencode(w, "running", TRUE)]

\* the records before the requests: each workspace either has no record or
\* is provisioned, running and owned by a user
InitGuard ==
  /\ kind = [w \in WorkspaceIds |-> "none"]
  /\ pc = [w \in WorkspaceIds |-> "idle"]
  /\ todo = [w \in WorkspaceIds |-> {}]
  /\ failedAt = [w \in WorkspaceIds |-> "none"]
  /\ error = [w \in WorkspaceIds |-> NoError]
  /\ exitCode = [w \in WorkspaceIds |-> 0]
  /\ resp = [w \in WorkspaceIds |-> "none"]
  /\ tdFault = [w \in WorkspaceIds |-> FALSE]
  /\ reqLeft = 0
  /\ faultsLeft = 0
  /\ overlap = FALSE
  /\ calls = [w \in WorkspaceIds |-> <<>>]
  /\ probe = NoProbe /\ synth = NoSynth /\ pull = NoPull
  /\ race = NoRace /\ prov = NoProv
  /\ \E owner \in [WorkspaceIds -> Owners] :
       LET ws == {w \in WorkspaceIds : owner[w] \in Users} IN
       /\ rec = [w \in WorkspaceIds |-> IF w \in ws THEN "running" ELSE "absent"]
       /\ hist = [w \in WorkspaceIds |->
                    IF w \in ws THEN <<"pending", "starting", "running">> ELSE <<>>]
       /\ containers = ProvisionedContainers(ws)
       /\ networks = {mainNetwork, defaultNetwork} \cup {networkName(w) : w \in ws}
       /\ volumes = UNION {{volumeName(w), opencodeDataVolume(w)} : w \in ws}
       /\ guard = [at |-> "idle", left |-> GuardRequests, owner |-> owner,
                   session |-> NoSession, route |-> "get", id |-> "c1",
                   action |-> NoAction, service |-> NoParam,
                   inspected |-> FALSE, fetched |-> NotFetched, resp |-> NoResponse]

\* the part of the state that routing a request leaves alone
unrouted == <<rec, rt, kind, pc, todo, failedAt, error, exitCode, resp, tdFault,
              hist, faultsLeft, overlap, calls, probe, synth, pull, race, prov>>

\* the previous request has answered: either a route returned its response,
\* or the lifecycle operation it was admitted to has run and finished
Answered ==
  \/ guard.at \in {"idle", "done"}
  \/ guard.at = "admitted" /\ reqLeft = 0 /\ Idle(guard.id)

\* a request arrives: a session or none, a route, the id of the path, and
\* what the route reads of the body or the query
GuardArrive(session, route, id, action, service) ==
  /\ guard.at # "none" /\ Answered /\ guard.left > 0
  /\ (route = "patch") <=> (action # NoAction)
  /\ (route # "health") => (service = NoParam)
  /\ guard' = [guard EXCEPT !.at = "auth", !.left = @ - 1, !.session = session,
                            !.route = route, !.id = id, !.action = action,
                            !.service = service, !.inspected = FALSE,
                            !.fetched = NotFetched, !.resp = NoResponse]
  /\ UNCHANGED <<unrouted, reqLeft>>

GuardAnswer(r) == guard' = [guard EXCEPT !.at = "done", !.resp = r]

\* const session = await auth(); if (!session || !session.user) return 401
GuardAuth ==
  /\ guard.at = "auth"
  /\ IF guard.session = NoSession
     THEN GuardAnswer(Json(401, "error", "Unauthorized"))
     ELSE guard' = [guard EXCEPT !.at = IF guard.route = "health" THEN "service"
                                        ELSE "lookup"]
  /\ UNCHANGED <<unrouted, reqLeft>>

\* the health route looks at its query before it looks for the record
GuardService ==
  /\ guard.at = "service"
  /\ IF guard.service = NoParam \/ guard.service \notin ProbedServices
     THEN GuardAnswer(Json(400, "error", "Invalid service parameter"))
     ELSE guard' = [guard EXCEPT !.at = "lookup"]
  /\ UNCHANGED <<unrouted, reqLeft>>

\* faulty variant: the record is looked up by id alone
Owned_AnyUser(session, id) == Found(id)

\* prisma.workspace.findFirst({ where: { id, userId: session.user.id } })
Owned(session, id) == Found(id) /\ guard.owner[id] = session

\* if (!workspace) return 404; DELETE goes straight to
\* removeWorkspaceContainer, GET to getContainerStatus, health to its fetch,
\* PATCH reads the body
GuardLookup ==
  /\ guard.at = "lookup"
  /\ IF ~Owned(guard.session, guard.id)
     THEN /\ GuardAnswer(Json(404, "error", "Workspace not found"))
          /\ UNCHANGED reqLeft
     ELSE /\ guard' = [guard EXCEPT !.at = CASE guard.route = "get" -> "status"
                                           [] guard.route = "patch" -> "body"
                                           [] guard.route = "delete" -> "admitted"
                                           [] OTHER -> "fetch"]
          /\ reqLeft' = IF guard.route = "delete" THEN 1 ELSE reqLeft
  /\ UNCHANGED unrouted

\* const { action } = body: stop and start go on, anything else is a 400
GuardBody ==
  /\ guard.at = "body"
  /\ IF guard.action \in {"stop", "start"}
     THEN guard' = [guard EXCEPT !.at = "admitted"] /\ reqLeft' = 1
     ELSE GuardAnswer(Json(400, "error", "Invalid action")) /\ UNCHANGED reqLeft
  /\ UNCHANGED unrouted

\* GET: getContainerStatus inspects both service containers and the route
\* answers with the record
GuardStatus ==
  /\ guard.at = "status"
  /\ guard' = [guard EXCEPT !.at = "done", !.inspected = TRUE,
                            !.resp = Json(200, "workspace", rec[guard.id])]
  /\ UNCHANGED <<unrouted, reqLeft>>

\* health: the single fetch of the service's URL
GuardFetch ==
  /\ guard.at = "fetch"
  /\ \E o \in FetchOutcomes :
       guard' = [guard EXCEPT !.at = "done", !.fetched = o, !.resp = HealthBody(o)]
  /\ UNCHANGED <<unrouted, reqLeft>>

\* the admitted request is a PATCH with this action, or a DELETE, on w
Admitted(w, route, action) ==
  /\ guard.at = "admitted"
  /\ guard.id = w /\ guard.route = route /\ guard.action = action

NextGuard ==
  \/ \E session \in Users \cup {NoSession}, route \in Routes, id \in WorkspaceIds,
        action \in PatchActions \cup {NoAction}, service \in ServiceParams :
       GuardArrive(session, route, id, action, service)
  \/ GuardAuth \/ GuardService \/ GuardLookup \/ GuardBody
  \/ GuardStatus \/ GuardFetch
  \/ \E w \in WorkspaceIds :
       \/ Admitted(w, "patch", "stop") /\ PatchStop(w)
       \/ Admitted(w, "patch", "start") /\ PatchStart(w)
       \/ Admitted(w, "delete", NoAction) /\ Delete(w)
       \/ PatchStopRecord(w) \/ PatchStartRecord(w) \/ DeleteRecord(w)
       \/ CleanupInit(w) \/ CleanupNetwork(w) \/ CleanupVolume(w)
       \/ CleanupOpencodeVolume(w)
       \/ \E s \in Services : StopCall(w, s) \/ StartCall(w, s) \/ RemoveCall(w, s)

SpecGuard == InitGuard /\ [][NextGuard]_vars


\* the request that has just been answered named a workspace its session
\* does not own, or that has no record
Unowned == guard.session # NoSession /\ ~Owned(guard.session, guard.id)

BadService == guard.route = "health" /\ guard.service \notin ProbedServices
BadAction == guard.route = "patch" /\ guard.action \notin {"start", "stop"}

\* a request without session or ownership was answered without a container
\* being inspected or probed
NothingRead == guard.inspected = FALSE /\ guard.fetched = NotFetched

\* a step that writes a record, changes the runtime or issues a runtime
\* call belongs to a start, stop or delete request of the owner, and
\* touches the record and the calls of the named workspace only
OwnerOnly ==
  (rec' # rec \/ rt' # rt \/ calls' # calls) =>
     /\ guard.at = "admitted"
     /\ guard.session # NoSession
     /\ guard.owner[guard.id] = guard.session
     /\ ~BadAction
     /\ \A w \in WorkspaceIds \ {guard.id} : rec'[w] = rec[w] /\ calls'[w] = calls[w]

\* C29 as stated: a request naming a workspace that does not exist or is
\* another user's is answered 404 (401 without session), inspects and probes
\* nothing, and no step of it touches a record or the runtime; a PATCH of the
\* owner with another action is answered 400
C29_NotFoundWithoutOwnership ==
  /\ [](guard.at = "done" =>
          /\ guard.session = NoSession => guard.resp.status = 401 /\ NothingRead
          /\ Unowned => guard.resp.status = 404 /\ NothingRead
          /\ (BadAction /\ guard.session # NoSession /\ ~Unowned) =>
                guard.resp.status = 400)
  /\ [][OwnerOnly]_vars

\* C29, amended: as above, except that the health route answers 400 to a
\* missing or unknown service parameter before it looks for the record,
\* whoever owns the workspace
C29_NoEffectWithoutOwnership ==
  /\ [](guard.at = "done" =>
          /\ guard.session = NoSession => guard.resp.status = 401 /\ NothingRead
          /\ (Unowned /\ BadService) => guard.resp.status = 400 /\ NothingRead
          /\ (Unowned /\ ~BadService) => guard.resp.status = 404 /\ NothingRead
          /\ (BadAction /\ guard.session # NoSession /\ ~Unowned) =>
                guard.resp.status = 400)
  /\ [][OwnerOnly]_vars

\* another user's stop request on a running workspace was answered 404
C29_Witness ==
  /\ guard.at = "done"
  /\ guard.route = "patch" /\ guard.action = "stop"
  /\ guard.session \in Users
  /\ guard.owner[guard.id] \in Users \ {guard.session}
  /\ guard.resp.status = 404
  /\ BothRunning(guard.id) /\ rec[guard.id] = "running"


(* ------ createWorkspaceContainer: secret references and bindings ------- *)

\* null, and the values a provider row and the caller's token can hold
Null == "<null>"
EnvVarNames == {Null, "", "OPENAI_API_KEY", "ANTHROPIC_API_KEY"}
ApiKeys == {Null, "", "sk-1"}
GithubTokens == {Null, "ghp_1"}

\* what `if (x)` takes for true of a string or null
Truthy(x) == x \notin {Null, ""}

\* the LLMProvider rows of the owner with the columns the secrets are read from
StoredSecrets ==
  UNION {{ps \in [1..n -> [providerId : Range(ProviderIds), isEnabled : BOOLEAN,
                           models : {<<>>}, envVarName : EnvVarNames,
                           apiKey : ApiKeys]] :
            \A i \in 1..n : ps[i].providerId = ProviderIds[i]} : n \in 0..Len(ProviderIds)}

\* `{env:${provider.envVarName}}`
EnvReference(name) == <<"{env:", name, "}">>
NoApiKey == <<>>

\* opencodeConfig.provider after the loop: for each provider key the options
\* written by the last provider of that key; options.apiKey is set only
\* under `if (provider.envVarName)`
ProviderOptions(providers) ==
  LET keys == Range(enabled_providers(providers))
      last(k) == CHOOSE i \in 1..Len(providers) :
                   /\ ToLowerCase(providers[i].providerId) = k
                   /\ \A j \in 1..Len(providers) :
                        ToLowerCase(providers[j].providerId) = k => j <= i
  IN [k \in keys |->
        [apiKey |-> IF Truthy(providers[last(k)].envVarName)
                    THEN EnvReference(providers[last(k)].envVarName)
                    ELSE NoApiKey]]

\* `${name}=${value}`
Binding(name, value) == <<name, "=", value>>

\* opencodeEnv: the two token entries under `if (githubToken)`, then one
\* entry per provider under `if (provider.apiKey && provider.envVarName)`
opencodeEnv(githubToken, providers) ==
  LET keyed == SelectSeq(providers,
                         LAMBDA p : Truthy(p.apiKey) /\ Truthy(p.envVarName))
  IN (IF Truthy(githubToken)
      THEN <<Binding("GITHUB_TOKEN", githubToken), Binding("GH_TOKEN", githubToken)>>
      ELSE <<>>)
     \o [i \in 1..Len(keyed) |-> Binding(keyed[i].envVarName, keyed[i].apiKey)]

\* one call of createWorkspaceContainer, seen from its provider rows to the
\* Env of the agent container
InitSecrets ==
  /\ Quiet(0, 0, FALSE)
  /\ containers = <<>>
  /\ volumes = {}
  /\ calls = NoTrace
  /\ probe = NoProbe
  /\ pull = NoPull
  /\ race = NoRace
  /\ prov = NoProv
  /\ guard = NoGuard
  /\ synth \in [at : {"fetch"}, githubToken : GithubTokens, stored : StoredSecrets,
                providers : {<<>>}, options : {<<>>}, env : {<<>>}]

SecretsFetch ==
  /\ synth.at = "fetch"
  /\ synth' = [synth EXCEPT !.at = "config", !.providers = FindMany(synth.stored)]
  /\ UNCHANGED <<lifecycle, probe, pull, race, prov, guard>>

SecretsConfig ==
  /\ synth.at = "config"
  /\ synth' = [synth EXCEPT !.at = "env", !.options = ProviderOptions(synth.providers)]
  /\ UNCHANGED <<lifecycle, probe, pull, race, prov, guard>>

SecretsEnv ==
  /\ synth.at = "env"
  /\ synth' = [synth EXCEPT !.at = "done",
                            !.env = opencodeEnv(synth.githubToken, synth.providers)]
  /\ UNCHANGED <<lifecycle, probe, pull, race, prov, guard>>

NextSecrets == SecretsFetch \/ SecretsConfig \/ SecretsEnv

SpecSecrets == InitSecrets /\ [][NextSecrets]_vars

\* the variable names that the Env list binds
Bound(env) == {env[i][1] : i \in 1..Len(env)}

\* C30: once the configuration and the Env of the agent container are built,
\* every apiKey reference {env:NAME} of the configuration has a binding for
\* NAME in the Env
C30_ReferencesResolve ==
  synth.at = "done" =>
    \A k \in DOMAIN synth.options :
      \A name \in EnvVarNames :
        synth.options[k].apiKey = EnvReference(name) => name \in Bound(synth.env)

====
